---- MODULE Spec2Model ----
(***************************************************************************)
(* Behavioural model of the IMX662 sensor drivers of simple_video_server:  *)
(*   rpi   src/IMX662_driver/imx662.c       (V4L2 sub-device, runtime PM)  *)
(*   fr    src/IMX662_driver/fr_imx662.c    (V4L2 sub-device, GMSL option) *)
(*   mipi  src/IMX662_driver/imx662_mipi.c  (vvcam sub-device)             *)
(* One driver instance is modelled at a time; the variant is fixed by the  *)
(* initial state.  Every operation is one atomic action that runs the      *)
(* whole handler, including the V4L2 control-framework calls it makes.     *)
(* The I2C bus and the serializer/deserializer collaborators can fail: each*)
(* operation draws the position of the first failing transfer and whether  *)
(* the failure persists.                                                   *)
(***************************************************************************)
EXTENDS Integers, Sequences, FiniteSets, TLC

VARIABLES
    drv,                  \* which driver variant this instance is
    gmsl,                 \* fr/mipi: instance sits behind a GMSL link
    power,                \* rpi/fr: runtime-PM active; mipi: powered_on
    usage,                \* rpi/fr: runtime-PM usage count
    streaming,            \* rpi/fr: streaming; mipi: stream_status
    resume_status,        \* mipi: resume_status
    common_regs_written,  \* rpi: common_regs_written
    suspended,            \* between the system suspend and resume callbacks
    mode,                 \* index of the current mode in the mode table
    VMAX,                 \* rpi: VMAX; fr: frame_length
    HMAX,                 \* rpi: HMAX
    ctrl,                 \* held (current) value of every control
    rng,                  \* <<minimum, maximum>> of every control
    grab,                 \* the flip (fr: and mode) controls are grabbed
    extmode,              \* sensor register EXTMODE
    trace,                \* bus and collaborator events of the last operation
    last,                 \* the last operation: name, argument, result, lock
    commonWrites,         \* complete writes of the common table this power cycle
    activeAtSuspend,      \* streaming flag seen by the last suspend callback
    pnew,                 \* new value (ctrl->val) of every control
    steps,                \* operations run so far
    faults,               \* operations run so far under an injected failure
    pendingOff,           \* controls set while off and not yet written
    loc                   \* locals of a driver function followed step by step

vars == <<drv, gmsl, power, usage, streaming, resume_status,
          common_regs_written, suspended, mode, VMAX, HMAX, ctrl, rng,
          grab, extmode, trace, last, commonWrites, activeAtSuspend,
          pnew, steps, faults, pendingOff, loc>>

----------------------------------------------------------------------------
(* Bounds of the exploration *)

\* a failing transfer is injected at position 1..MaxXfer of an operation
MaxXfer == 30
\* the count of common-table writes per power cycle is tracked up to this
MaxCommonWrites == 3
\* stream starts are explored while the runtime-PM usage count is below this
MaxUsage == 2
\* a behaviour runs at most this many operations
MaxOps == 4
\* and at most this many of them under an injected bus failure
MaxFaults == 1

----------------------------------------------------------------------------
(* Result codes *)

EIO == -5
EINVAL == -22
ERANGE == -34
EBUSY == -16

Min(a, b) == IF a < b THEN a ELSE b
Max(a, b) == IF a > b THEN a ELSE b
\* truncation to a 16-bit register value or field
U16(x) == x % 65536

\* a * b \div c for a 64-bit product that exceeds the range of the model
\* checker's integers (do_div on a u64 product, a >= 0, c > 0): f[x] is the
\* pair <<quotient, remainder>> of a * x by c, built from the digits of x in
\* base k, which is chosen so that k * c + (k - 1) * a stays inside the
\* integers
MulDiv(a, b, c) ==
    LET k == IF a <= 100000000 /\ c <= 100000000 THEN 8 ELSE 2
        f[x \in Nat] ==
            IF x = 0 THEN <<0, 0>>
            ELSE LET h == f[x \div k]
                     r == k * h[2] + (x % k) * a
                 IN << k * h[1] + r \div c, r % c >>
    IN IF a >= 0 /\ c > 0 THEN f[b][1] ELSE 0

\* statement sequencing inside a handler: the value of one step, computed
\* once, is what the steps after it (F) work on
Then(v, F(_)) == CHOOSE r \in {F(x) : x \in {v}} : TRUE

\* clamp()/clamp_t() of include/linux/minmax.h as used by the drivers
Clamp(v, lo, hi) == IF v < lo THEN lo ELSE IF v > hi THEN hi ELSE v

----------------------------------------------------------------------------
(* The bus.  An operation works on a record s holding the driver fields    *)
(* and the bus context: n transfers made so far, fa the failing position,  *)
(* st whether every later transfer fails as well, log the events.          *)

Fails(s, i) == i = s.fa \/ (s.st /\ s.fa > 0 /\ i > s.fa)

\* one register write: i2c_master_send of write_reg_*; fails when the sensor
\* is not powered or when the injected failure hits
Write(s, reg, val) ==
    LET i == s.n + 1
        good == s.power /\ ~Fails(s, i)
    IN [s EXCEPT !.n = i,
                 !.ok = good,
                 !.ret = IF good THEN 0 ELSE EIO,
                 !.extmode = IF good /\ reg = "EXTMODE" THEN val ELSE @,
                 !.log = Append(@, [reg |-> reg, val |-> val, ok |-> good])]

\* one register read
Read(s, reg) ==
    LET i == s.n + 1
        good == s.power /\ ~Fails(s, i)
    IN [s EXCEPT !.n = i,
                 !.ok = good,
                 !.ret = IF good THEN 0 ELSE EIO,
                 !.log = Append(@, [reg |-> "rd:" \o reg, val |-> 0, ok |-> good])]

\* one call into the serializer/deserializer drivers (max96793_*, max96792_*)
Collab(s, name) ==
    LET i == s.n + 1
        good == ~Fails(s, i)
    IN [s EXCEPT !.n = i,
                 !.ok = good,
                 !.ret = IF good THEN 0 ELSE EIO,
                 !.log = Append(@, [reg |-> name, val |-> 0, ok |-> good])]

\* usleep_range / msleep: us microseconds pass; no transfer is made
Delay(s, us) ==
    [s EXCEPT !.log = Append(@, [reg |-> "delay", val |-> us, ok |-> TRUE])]

\* imx662_write_regs / imx662_write_table: stop at the first failing entry
RECURSIVE imx662_write_regs(_, _)
imx662_write_regs(s, regs) ==
    IF regs = <<>> THEN [s EXCEPT !.ret = 0]
    ELSE Then(Write(s, Head(regs)[1], Head(regs)[2]), LAMBDA t :
         IF ~t.ok THEN t ELSE imx662_write_regs(t, Tail(regs)))

----------------------------------------------------------------------------
(* V4L2 control framework (drivers/media/v4l2-core/v4l2-ctrls-core.c), as  *)
(* far as the drivers call it.  s_ctrl is the driver's control handler.    *)

(* s.ctrl[id] is the held value (ctrl->cur.val), s.val[id] the new value  *)
(* (ctrl->val), which is what a handler reads through a control pointer.   *)

RECURSIVE s_ctrl(_, _, _)
RECURSIVE Rpi_set_ctrl(_, _, _)
RECURSIVE Fr_set_ctrl(_, _, _)

\* try_or_set_cluster: call the handler with the new value, commit it to the
\* held value only when the handler returns 0
FwTrySet(s, id, v) ==
    Then(s_ctrl([s EXCEPT !.val[id] = v], id, v), LAMBDA t :
    IF t.ret = 0 THEN [t EXCEPT !.ctrl[id] = v] ELSE t)

\* __v4l2_ctrl_s_ctrl / VIDIOC_S_CTRL: the value is clamped to the range and
\* the handler is not called when nothing changes
FwSCtrl(s, id, val) ==
    LET v == Clamp(val, s.rng[id][1], s.rng[id][2])
    IN IF v = s.ctrl[id] THEN [s EXCEPT !.val[id] = v, !.ret = 0]
       ELSE FwTrySet(s, id, v)

\* __v4l2_ctrl_modify_range: refuse an inconsistent range, else store it,
\* clamp the held value into it and set the clamped value if it differs
FwModifyRange(s, id, lo, hi, def) ==
    IF lo > hi \/ def < lo \/ def > hi THEN [s EXCEPT !.ret = ERANGE]
    ELSE LET s1 == [s EXCEPT !.rng[id] = <<lo, hi>>]
             v == Clamp(s.ctrl[id], lo, hi)
         IN IF v = s.ctrl[id] THEN [s1 EXCEPT !.val[id] = v, !.ret = 0]
            ELSE FwTrySet(s1, id, v)

\* __v4l2_ctrl_handler_setup: hand every writable control's held value to
\* the handler in creation order, stop at the first error
RECURSIVE FwHandlerSetup(_, _)
FwHandlerSetup(s, ids) ==
    IF ids = <<>> THEN [s EXCEPT !.ret = 0]
    ELSE LET id == Head(ids)
         IN Then(s_ctrl([s EXCEPT !.val[id] = s.ctrl[id]], id, s.ctrl[id]),
                 LAMBDA t :
                 IF t.ret # 0 THEN t ELSE FwHandlerSetup(t, Tail(ids)))

\* pm_runtime_get_if_in_use followed by the matching pm_runtime_put
PmInUse(s) == s.power /\ s.usage > 0

----------------------------------------------------------------------------
(* rpi: src/IMX662_driver/imx662.c *)

IMX662_VMAX_MAX == 1048575
IMX662_HMAX_MAX == 65535
IMX662_EXPOSURE_MIN == 52
IMX662_EXPOSURE_MAX == 49865
IMX662_EXPOSURE_DEFAULT == 1000
IMX662_ANA_GAIN_MAX == 240
IMX662_ANA_GAIN_HCG_LEVEL == 51
IMX662_ANA_GAIN_HCG_THRESHOLD == IMX662_ANA_GAIN_HCG_LEVEL + 29
IMX662_ANA_GAIN_HCG_MIN == 34
IMX662_PIXEL_RATE == 74250000
IMX662_BLKLEVEL_DEFAULT == 50
IMX662_MODE_STANDBY == 1
IMX662_MODE_STREAMING == 0
IMX662_STREAM_DELAY_US == 25000
imx662_XCLR_MIN_DELAY_US == 500000

\* mode_common_regs: the first entry puts the sensor in standby, the last
\* entry writes the streaming value to the mode-select register; the
\* entries in between are folded into one transfer
Rpi_mode_common_regs ==
    << <<"STANDBY", 1>>, <<"COMMON", 0>>, <<"STANDBY", 0>> >>

\* supported_modes_12bit[0], supported_modes_nonlinear_12bit[0..1],
\* supported_modes_16bit[0..1]; mode_1080_16bit_regs has no entries
Rpi_modes ==
    << [list |-> "12", width |-> 1936, height |-> 1100, hdr |-> FALSE,
        linear |-> TRUE, min_HMAX |-> 990, min_VMAX |-> 1250,
        default_HMAX |-> 990, default_VMAX |-> 1250, min_SHR |-> 20,
        regs |-> << <<"MODE", 1>> >>],
       [list |-> "nl12", width |-> 1936, height |-> 1096, hdr |-> TRUE,
        linear |-> FALSE, min_HMAX |-> 366, min_VMAX |-> 2250,
        default_HMAX |-> 366, default_VMAX |-> 2250, min_SHR |-> 20,
        regs |-> << <<"MODE", 2>> >>],
       [list |-> "nl12", width |-> 3856, height |-> 2180, hdr |-> TRUE,
        linear |-> FALSE, min_HMAX |-> 550, min_VMAX |-> 4500,
        default_HMAX |-> 550, default_VMAX |-> 4500, min_SHR |-> 20,
        regs |-> << <<"MODE", 3>> >>],
       [list |-> "16", width |-> 1928, height |-> 1090, hdr |-> TRUE,
        linear |-> TRUE, min_HMAX |-> 550, min_VMAX |-> 4500,
        default_HMAX |-> 550, default_VMAX |-> 4500, min_SHR |-> 20,
        regs |-> << >>],
       [list |-> "16", width |-> 3856, height |-> 2180, hdr |-> TRUE,
        linear |-> TRUE, min_HMAX |-> 550, min_VMAX |-> 4500,
        default_HMAX |-> 550, default_VMAX |-> 4500, min_SHR |-> 20,
        regs |-> << <<"MODE", 5>> >>] >>

\* controls in the order imx662_init_controls creates them (the read-only
\* link frequency and the pixel rate, which the handler ignores, left out)
Rpi_ctrl_order == <<"vblank", "hblank", "exposure", "gain", "hflip", "vflip">>

\* calculate_v4l2_cid_exposure with svr = 0.  The operands the model feeds
\* in keep every intermediate value inside 0 .. 2^31-1, where the unsigned
\* 64-bit arithmetic of the code and integer arithmetic agree.
calculate_v4l2_cid_exposure(hmax, vmax, shr, offset) ==
    ((vmax - shr) * hmax + offset) \div hmax

\* calculate_min_max_v4l2_cid_exposure with svr = 0
calculate_min_max_v4l2_cid_exposure(hmax, vmax, min_shr, offset) ==
    LET max_shr == Min(vmax - 4, 65535)
    IN << calculate_v4l2_cid_exposure(hmax, vmax, max_shr, offset),
          calculate_v4l2_cid_exposure(hmax, vmax, min_shr, offset) >>

\* calculate_shr with svr = 0
calculate_shr(exposure, hmax, vmax, offset) ==
    vmax - ((exposure * hmax - offset) \div hmax)

\* the switch of imx662_set_ctrl, reached only when the device is in use
Rpi_apply_ctrl(s, id, v) ==
    LET m == Rpi_modes[s.mode]
    IN CASE id = "exposure" ->
              Write(s, "SHR", U16(calculate_shr(v, s.HMAX, s.VMAX, 209)))
         [] id = "gain" ->
              LET useHGC == ~m.hdr /\ v >= IMX662_ANA_GAIN_HCG_THRESHOLD
                  gain == IF useHGC
                          THEN Max(v - IMX662_ANA_GAIN_HCG_LEVEL,
                                   IMX662_ANA_GAIN_HCG_MIN)
                          ELSE v
              IN Then(Write(s, "REGHOLD", 1), LAMBDA a :
                 Then(Write(a, "GAIN", U16(gain)), LAMBDA b :
                 Then(Write(b, "FDG_SEL0", IF useHGC THEN 1 ELSE 0), LAMBDA c :
                 Then(Write(c, "REGHOLD", 0), LAMBDA d :
                 [d EXCEPT !.ret = c.ret]))))
         [] id = "vblank" ->
              Write([s EXCEPT !.VMAX = m.height + v], "VMAX", m.height + v)
         [] id = "hblank" ->
              Then(MulDiv(m.width, IMX662_PIXEL_RATE, m.min_HMAX),
                   LAMBDA pixel_rate :
              Then(U16(MulDiv(m.width + v, IMX662_PIXEL_RATE, pixel_rate)),
                   LAMBDA hmax :
              Write([s EXCEPT !.HMAX = hmax], "HMAX", hmax)))
         [] id = "hflip" -> Write(s, "WINMODEH", v)
         [] id = "vflip" -> Write(s, "WINMODEV", v)
         [] OTHER -> [s EXCEPT !.ret = 0]

\* imx662_set_ctrl: a vertical-blanking value first recomputes the exposure
\* range (the default handed to the framework is an uninitialised local
\* clamped into the range, s.garbage); the register is written only when
\* the device is in use
Rpi_set_ctrl(s, id, v) ==
    LET m == Rpi_modes[s.mode]
    IN Then(IF id = "vblank"
            THEN LET vmax == m.height + v
                 IN Then(calculate_min_max_v4l2_cid_exposure(
                             s.HMAX, vmax, m.min_SHR, 209), LAMBDA mm :
                    FwModifyRange([s EXCEPT !.VMAX = vmax], "exposure",
                                  mm[1], mm[2],
                                  Clamp(s.garbage, mm[1], mm[2])))
            ELSE s, LAMBDA s1 :
       IF ~PmInUse(s1) THEN [s1 EXCEPT !.ret = 0]
       ELSE Rpi_apply_ctrl(s1, id, v))

\* imx662_set_framing_limits
Rpi_set_framing_limits(s) ==
    LET m == Rpi_modes[s.mode]
    IN Then(MulDiv(m.width, IMX662_PIXEL_RATE, m.min_HMAX),
            LAMBDA pixel_rate :
       Then(MulDiv(m.default_HMAX, pixel_rate, IMX662_PIXEL_RATE) - m.width,
            LAMBDA def_hblank :
       Then(FwModifyRange([s EXCEPT !.VMAX = m.default_VMAX,
                                    !.HMAX = m.default_HMAX],
                          "hblank", 0, IMX662_HMAX_MAX, def_hblank),
            LAMBDA s1 :
       Then(FwSCtrl(s1, "hblank", def_hblank), LAMBDA s2 :
       Then(FwModifyRange(s2, "vblank", m.min_VMAX - m.height,
                          IMX662_VMAX_MAX - m.height,
                          m.default_VMAX - m.height), LAMBDA s3 :
       FwSCtrl(s3, "vblank", m.default_VMAX - m.height))))))

\* v4l2_find_nearest_size over the mode list get_mode_table selects
Rpi_find_mode(list, w, h) ==
    LET Abs(x) == IF x < 0 THEN -x ELSE x
        cand == {i \in DOMAIN Rpi_modes : Rpi_modes[i].list = list}
        err(i) == Abs(Rpi_modes[i].width - w) + Abs(Rpi_modes[i].height - h)
    IN CHOOSE i \in cand :
           \A j \in cand : err(i) < err(j) \/ (err(i) = err(j) /\ i <= j)

\* imx662_set_pad_format, image pad, active format
Rpi_set_pad_format(s, list, w, h) ==
    Then(Rpi_find_mode(list, w, h), LAMBDA mo :
    IF s.mode # mo
    THEN Then(Rpi_set_framing_limits([s EXCEPT !.mode = mo]), LAMBDA t :
              [t EXCEPT !.ret = 0])
    ELSE [s EXCEPT !.ret = 0])

\* imx662_start_streaming.  The four writes of the gradation compression
\* curve are folded into the transfer CCMP_ACMP and the three writes of the
\* HDR combining options into EXP_TH_BK: none of their results is looked at
Rpi_start_streaming(s) ==
    LET m == Rpi_modes[s.mode]
    IN Then(IF s.crw THEN [s EXCEPT !.ret = 0]
            ELSE Then(imx662_write_regs(s, Rpi_mode_common_regs), LAMBDA t :
                 IF t.ret # 0 THEN t
                 ELSE Then(Write(t, "BLKLEVEL", IMX662_BLKLEVEL_DEFAULT),
                           LAMBDA u :
                           [u EXCEPT !.ret = 0, !.crw = TRUE,
                                     !.cc = Min(@ + 1, MaxCommonWrites)])),
            LAMBDA a :
       Then(IF a.ret # 0 THEN a ELSE imx662_write_regs(a, m.regs),
            LAMBDA b :
       IF b.ret # 0 THEN b
       ELSE Then(Write(b, "CCMP_ACMP", IF m.linear THEN 0 ELSE 1),
                 LAMBDA c1 :
            Then(IF m.hdr THEN Write(c1, "EXP_TH_BK", 0) ELSE c1, LAMBDA c2 :
            Then(Write(c2, "DIGITAL_CLAMP", 0), LAMBDA c3 :
            Then(FwHandlerSetup(c3, Rpi_ctrl_order), LAMBDA d :
            IF d.ret # 0 THEN d
            ELSE Delay(Write(d, "STANDBY", IMX662_MODE_STREAMING),
                       IMX662_STREAM_DELAY_US)))))))

\* imx662_stop_streaming: the result of the standby write is only logged
Rpi_stop_streaming(s) ==
    Then(Write(s, "STANDBY", IMX662_MODE_STANDBY), LAMBDA t :
    [t EXCEPT !.ret = 0])

\* imx662_power_on as the runtime-resume callback; pwr is whether the
\* regulators and the clock come up
Rpi_power_on(s, pwr) ==
    IF pwr THEN Delay([s EXCEPT !.power = TRUE, !.cc = 0, !.ret = 0],
                      imx662_XCLR_MIN_DELAY_US)
    ELSE [s EXCEPT !.ret = EIO]

\* imx662_power_off as the runtime-suspend callback
Rpi_power_off(s) ==
    [s EXCEPT !.power = FALSE, !.crw = FALSE, !.ret = 0]

\* a stop path that would keep the streaming flag whenever the standby
\* write did not go through; the driver does not behave like this
Rpi_set_stream_trusting(s, enable, pwr) ==
    IF s.streaming = enable THEN [s EXCEPT !.ret = 0]
    ELSE IF enable
    THEN Then(IF s.power THEN [s EXCEPT !.usage = @ + 1, !.ret = 0]
              ELSE Rpi_power_on([s EXCEPT !.usage = @ + 1], pwr), LAMBDA a :
         IF a.ret < 0 THEN [a EXCEPT !.usage = @ - 1]
         ELSE Then(Rpi_start_streaming(a), LAMBDA b :
              IF b.ret # 0 THEN [b EXCEPT !.usage = @ - 1]
              ELSE [b EXCEPT !.streaming = TRUE, !.grab = TRUE]))
    ELSE Then(Rpi_stop_streaming(s), LAMBDA t :
         [t EXCEPT !.usage = @ - 1, !.streaming = ~t.ok, !.grab = ~t.ok])

\* imx662_set_stream
Rpi_set_stream(s, enable, pwr) ==
    IF s.streaming = enable THEN [s EXCEPT !.ret = 0]
    ELSE IF enable
    THEN Then(IF s.power THEN [s EXCEPT !.usage = @ + 1, !.ret = 0]
              ELSE Rpi_power_on([s EXCEPT !.usage = @ + 1], pwr), LAMBDA a :
         IF a.ret < 0 THEN [a EXCEPT !.usage = @ - 1]
         ELSE Then(Rpi_start_streaming(a), LAMBDA b :
              IF b.ret # 0 THEN [b EXCEPT !.usage = @ - 1]
              ELSE [b EXCEPT !.streaming = TRUE, !.grab = TRUE]))
    ELSE Then(Rpi_stop_streaming(s), LAMBDA t :
         [t EXCEPT !.usage = @ - 1, !.streaming = FALSE, !.grab = FALSE])

\* imx662_suspend
Rpi_suspend(s) ==
    IF s.streaming THEN Rpi_stop_streaming(s) ELSE [s EXCEPT !.ret = 0]

\* a resume callback that would start streaming without looking at the
\* streaming flag; the driver does not behave like this
Rpi_resume_always(s) ==
    Then(Rpi_start_streaming(s), LAMBDA a :
    IF a.ret # 0
    THEN Then(Rpi_stop_streaming(a), LAMBDA t :
              [t EXCEPT !.streaming = FALSE, !.ret = a.ret])
    ELSE [a EXCEPT !.streaming = TRUE])

\* imx662_resume
Rpi_resume(s) ==
    IF s.streaming
    THEN Then(Rpi_start_streaming(s), LAMBDA a :
         IF a.ret # 0
         THEN Then(Rpi_stop_streaming(a), LAMBDA t :
                   [t EXCEPT !.streaming = FALSE, !.ret = a.ret])
         ELSE a)
    ELSE [s EXCEPT !.ret = 0]

----------------------------------------------------------------------------
(* fr: src/IMX662_driver/fr_imx662.c *)

\* fr_imx662.c and imx662_mipi.c define the same value
IMX662_K_FACTOR == 1000
IMX662_M_FACTOR == 1000000
IMX662_G_FACTOR == 1000000000
IMX662_XCLK_FREQ == 74250000
IMX662_MIN_SHR0_LENGTH == 4
IMX662_MIN_INTEGRATION_LINES == 1
IMX662_MIN_FRAME_LENGTH_DELTA == 70
IMX662_MAX_BLACK_LEVEL_10BPP == 1023
IMX662_MAX_BLACK_LEVEL_12BPP == 4095
IMX662_DEFAULT_BLACK_LEVEL_10BPP == 50
IMX662_DEFAULT_BLACK_LEVEL_12BPP == 200
\* enum { MASTER_MODE, SLAVE_MODE } and { NO_SYNC, INTERNAL_SYNC, EXTERNAL_SYNC }
MASTER_MODE == 0
SLAVE_MODE == 1
INTERNAL_SYNC == 1
EXTERNAL_SYNC == 2
\* truncation to the three bytes a len-3 register write sends
U24(x) == x % 16777216

\* modes_12bit[0..3] and modes_10bit[0..2]; the register lists are folded
\* into one transfer each
Fr_modes ==
    << [list |-> "12", width |-> 1920, height |-> 1080, hmax |-> 990,
        linkfreq |-> 594, min_fps |-> 1000000],
       [list |-> "12", width |-> 1280, height |-> 720, hmax |-> 990,
        linkfreq |-> 594, min_fps |-> 1000000],
       [list |-> "12", width |-> 640, height |-> 480, hmax |-> 990,
        linkfreq |-> 594, min_fps |-> 1000000],
       [list |-> "12", width |-> 968, height |-> 550, hmax |-> 990,
        linkfreq |-> 594, min_fps |-> 1000000],
       [list |-> "10", width |-> 1920, height |-> 1080, hmax |-> 660,
        linkfreq |-> 720, min_fps |-> 1000000],
       [list |-> "10", width |-> 1280, height |-> 720, hmax |-> 660,
        linkfreq |-> 720, min_fps |-> 1000000],
       [list |-> "10", width |-> 640, height |-> 480, hmax |-> 660,
        linkfreq |-> 720, min_fps |-> 1000000] >>

\* controls in the order imx662_init_controls creates them, the read-only
\* ones (pixel rate, link frequency, hblank, fwnode properties) left out
Fr_ctrl_order ==
    <<"vblank", "exposure", "framerate", "operation_mode", "sync_mode",
      "blklvl", "gain", "hflip", "vflip", "test_pattern">>

\* imx662->line_time as imx662_set_limits computes it from mode->hmax
Fr_line_time_of(hmax) == MulDiv(hmax, IMX662_G_FACTOR, IMX662_XCLK_FREQ)

\* imx662->line_time, which imx662_set_limits keeps in step with the mode
Fr_line_times == [i \in DOMAIN Fr_modes |-> Fr_line_time_of(Fr_modes[i].hmax)]
Fr_line_time(s) == Fr_line_times[s.mode]

\* imx662_is_binning_mode
Fr_is_binning_mode(s) == s.mode = 4

\* imx662_write_hold_reg: a failure of the register write itself is
\* overwritten by the result of the write that releases the hold
Fr_write_hold_reg(s, reg, val) ==
    Then(Write(s, "REGHOLD", 1), LAMBDA a :
    IF a.ret # 0 THEN a
    ELSE Then(Write(a, reg, val), LAMBDA b :
         Write(b, "REGHOLD", 0)))

\* imx662_set_exposure
Fr_set_exposure(s, v) ==
    Fr_write_hold_reg(s, "SHR",
                      U24(s.val["vblank"] + Fr_modes[s.mode].height - v))

\* imx662_adjust_exposure_range: the result of the range change is dropped
Fr_adjust_exposure_range(s) ==
    LET exposure_max == s.val["vblank"] + Fr_modes[s.mode].height
                            - IMX662_MIN_SHR0_LENGTH
    IN FwModifyRange(s, "exposure", IMX662_MIN_INTEGRATION_LINES,
                     exposure_max, exposure_max)

\* imx662_update_frame_rate
Fr_update_frame_rate(s, v) ==
    Then(MulDiv(IMX662_M_FACTOR, IMX662_G_FACTOR, v) \div Fr_line_time(s),
         LAMBDA fl :
    LET frame_length == IF fl % 2 = 1 THEN fl + 1 ELSE fl
        update_vblank == frame_length - Fr_modes[s.mode].height
    IN Then(FwModifyRange([s EXCEPT !.VMAX = frame_length], "vblank",
                          update_vblank, update_vblank, update_vblank),
            LAMBDA a :
       FwSCtrl(a, "vblank", update_vblank)))

\* imx662_set_test_pattern: the pattern-generator table, then the pattern
Fr_set_test_pattern(s, v) ==
    IF v # 0
    THEN Then(Write(s, "TPG_TABLE", 1), LAMBDA a :
         IF a.ret # 0 THEN a ELSE Write(a, "TPG_PATSEL", v - 1))
    ELSE Write(s, "TPG_TABLE", 0)

\* imx662_configure_triggering_pins
Fr_configure_triggering_pins(s) ==
    Write(s, "XVS_XHS_DRV",
          IF s.val["operation_mode"] = MASTER_MODE
             /\ s.val["sync_mode"] = INTERNAL_SYNC
          THEN 0 ELSE 15)

\* the second switch of imx662_set_ctrl with an imx662_set_blklvl that
\* writes the value as it is in every format, for contrast
Fr_apply_ctrl_unshifted(s, id, v) ==
    CASE id = "gain" -> Fr_write_hold_reg(s, "GAIN", v)
      [] id = "exposure" -> Fr_set_exposure(s, v)
      [] id = "test_pattern" -> [Fr_set_test_pattern(s, v) EXCEPT !.ret = 0]
      [] id = "hflip" -> Write(s, "HREVERSE", v)
      [] id = "vflip" -> Write(s, "VREVERSE", v)
      [] id = "framerate" -> Fr_write_hold_reg(s, "VMAX", s.VMAX)
      [] id = "blklvl" -> Fr_write_hold_reg(s, "BLKLEVEL", v)
      [] id = "sync_mode" ->
           Write(s, "EXTMODE", IF v = EXTERNAL_SYNC THEN 1 ELSE 0)
      [] OTHER -> [s EXCEPT !.ret = 0]

\* the second switch of imx662_set_ctrl, reached when the device is in use
Fr_apply_ctrl(s, id, v) ==
    CASE id = "gain" -> Fr_write_hold_reg(s, "GAIN", v)
      [] id = "exposure" -> Fr_set_exposure(s, v)
      [] id = "test_pattern" -> [Fr_set_test_pattern(s, v) EXCEPT !.ret = 0]
      [] id = "hflip" -> Write(s, "HREVERSE", v)
      [] id = "vflip" -> Write(s, "VREVERSE", v)
      [] id = "framerate" -> Fr_write_hold_reg(s, "VMAX", s.VMAX)
      [] id = "blklvl" ->
           Fr_write_hold_reg(s, "BLKLEVEL",
                             IF Fr_modes[s.mode].list = "10" THEN v
                             ELSE v \div 4)
      [] id = "sync_mode" ->
           Write(s, "EXTMODE", IF v = EXTERNAL_SYNC THEN 1 ELSE 0)
      [] OTHER -> [s EXCEPT !.ret = 0]

\* imx662_set_ctrl
Fr_set_ctrl(s, id, v) ==
    Then(CASE id = "framerate" -> Fr_update_frame_rate(s, v)
           [] id = "vblank" -> Fr_adjust_exposure_range(s)
           [] OTHER -> s, LAMBDA s1 :
    IF ~PmInUse(s1) THEN [s1 EXCEPT !.ret = 0]
    ELSE Fr_apply_ctrl(s1, id, v))

\* imx662_update_blklvl_range
Fr_update_blklvl_range(s) ==
    IF Fr_modes[s.mode].list = "12"
    THEN Then(FwModifyRange(s, "blklvl", 0, IMX662_MAX_BLACK_LEVEL_12BPP,
                            IMX662_DEFAULT_BLACK_LEVEL_12BPP), LAMBDA a :
         FwSCtrl(a, "blklvl", IMX662_DEFAULT_BLACK_LEVEL_12BPP))
    ELSE Then(FwModifyRange(s, "blklvl", 0, IMX662_MAX_BLACK_LEVEL_10BPP,
                            IMX662_DEFAULT_BLACK_LEVEL_10BPP), LAMBDA a :
         FwSCtrl(a, "blklvl", IMX662_DEFAULT_BLACK_LEVEL_10BPP))

\* imx662_set_limits (the read-only pixel-rate and link-frequency controls,
\* whose handler calls write nothing, left out)
Fr_set_limits(s) ==
    LET m == Fr_modes[s.mode]
        vblank == IMX662_MIN_FRAME_LENGTH_DELTA
    IN Then(FwModifyRange(s, "vblank", vblank, vblank, vblank), LAMBDA a :
       Then(IF Fr_is_binning_mode(a) THEN m.height * 2 + vblank
            ELSE m.height + vblank, LAMBDA frame_length :
       Then(MulDiv(IMX662_M_FACTOR, IMX662_G_FACTOR,
                   frame_length * Fr_line_time(a)), LAMBDA max_framerate :
       Then(FwModifyRange([a EXCEPT !.VMAX = frame_length], "framerate",
                          m.min_fps, max_framerate, max_framerate),
            LAMBDA c :
       Then(Fr_update_blklvl_range(c), LAMBDA d :
       FwSCtrl(d, "framerate", max_framerate))))))

\* v4l2_find_nearest_size over the mode list get_mode_table selects
Fr_find_mode(list, w, h) ==
    LET Abs(x) == IF x < 0 THEN -x ELSE x
        cand == {i \in DOMAIN Fr_modes : Fr_modes[i].list = list}
        err(i) == Abs(Fr_modes[i].width - w) + Abs(Fr_modes[i].height - h)
    IN CHOOSE i \in cand :
           \A j \in cand : err(i) < err(j) \/ (err(i) = err(j) /\ i <= j)

\* imx662_set_pad_format, image pad, active format
Fr_set_pad_format(s, list, w, h) ==
    Then(Fr_find_mode(list, w, h), LAMBDA mo :
    IF s.mode # mo
    THEN Then(Fr_set_limits([s EXCEPT !.mode = mo]), LAMBDA t :
              [t EXCEPT !.ret = 0])
    ELSE [s EXCEPT !.ret = 0])

\* imx662_set_hmax_register
Fr_set_hmax_register(s) ==
    Fr_write_hold_reg(s, "HMAX", Fr_modes[s.mode].hmax)

\* imx662_set_data_rate
Fr_set_data_rate(s) ==
    Write(s, "DATARATE_SEL", IF Fr_modes[s.mode].linkfreq = 720 THEN 6 ELSE 7)

\* imx662_set_mode: the common table is written on every call
Fr_set_mode(s) ==
    Then(Write(s, "COMMON", 0), LAMBDA a :
    IF a.ret # 0 THEN a
    ELSE Then(Write([a EXCEPT !.cc = Min(@ + 1, MaxCommonWrites)],
                    "MODE", s.mode), LAMBDA b :
         IF b.ret # 0 THEN b
         ELSE Then(Write(b, "FORMAT",
                         IF Fr_modes[s.mode].list = "12" THEN 12 ELSE 10),
                   LAMBDA c :
              IF c.ret # 0 THEN c
              ELSE Then(Fr_set_hmax_register(c), LAMBDA d :
                   IF d.ret # 0 THEN d
                   ELSE Then(Fr_set_data_rate(d), LAMBDA e :
                        IF e.ret # 0 THEN e
                        ELSE Fr_configure_triggering_pins(e))))))

\* the serializer/deserializer part of imx662_start_streaming
Fr_gmsl_start(s) ==
    IF ~s.gmsl THEN [s EXCEPT !.ret = 0]
    ELSE Then(Collab(s, "max96793_setup_streaming"), LAMBDA a :
         IF a.ret # 0 THEN a
         ELSE Then(Collab(a, "max96792_setup_streaming"), LAMBDA b :
              IF b.ret # 0 THEN b
              ELSE Collab(b, "max96792_start_streaming")))

\* a start sequence that would assert master-start whatever the operation
\* mode is; the driver does not behave like this
Fr_start_streaming_master(s) ==
    Then(Fr_gmsl_start(s), LAMBDA g :
    IF g.ret # 0 THEN g
    ELSE Then(Fr_set_mode(g), LAMBDA a :
         IF a.ret # 0 THEN a
         ELSE Then(FwHandlerSetup(a, Fr_ctrl_order), LAMBDA b :
              IF b.ret # 0 THEN b
              ELSE Then(Write(b, "STANDBY", IMX662_MODE_STREAMING),
                        LAMBDA c :
                   IF c.ret # 0 THEN c
                   ELSE Write(Delay(c, 29000), "XMSTA", 0)))))

\* imx662_start_streaming
Fr_start_streaming(s) ==
    Then(Fr_gmsl_start(s), LAMBDA g :
    IF g.ret # 0 THEN g
    ELSE Then(Fr_set_mode(g), LAMBDA a :
         IF a.ret # 0 THEN a
         ELSE Then(FwHandlerSetup(a, Fr_ctrl_order), LAMBDA b :
              IF b.ret # 0 THEN b
              ELSE Then(Write(b, "STANDBY", IMX662_MODE_STREAMING),
                        LAMBDA c :
                   IF c.ret # 0 THEN c
                   ELSE Write(Delay(c, 29000), "XMSTA",
                              IF c.val["operation_mode"] = MASTER_MODE
                              THEN 0 ELSE 1)))))

\* imx662_stop_streaming: no result is looked at
Fr_stop_streaming(s) ==
    Then(IF s.gmsl
         THEN Then(Collab(s, "max96793_bypassPCLK_dis"), LAMBDA p :
                   Collab(p, "max96792_stop_streaming"))
         ELSE s, LAMBDA g :
    Then(Write(g, "XMSTA", 1), LAMBDA a :
    Then(Write(a, "STANDBY", IMX662_MODE_STANDBY), LAMBDA b :
    [Delay(b, MulDiv(b.VMAX, Fr_line_time(b), IMX662_K_FACTOR))
        EXCEPT !.ret = 0])))

\* imx662_power_on as the runtime-resume callback
Fr_power_on(s) ==
    Then(IF s.gmsl THEN Collab(s, "max96792_power_on")
         ELSE Delay(s, 25000), LAMBDA a :
    [a EXCEPT !.power = TRUE, !.cc = 0, !.ret = 0])

\* imx662_power_off as the runtime-suspend callback
Fr_power_off(s) ==
    Then(Write(s, "XVS_XHS_DRV", 15), LAMBDA a :
    Then(IF s.gmsl THEN Collab(a, "max96792_power_off") ELSE a, LAMBDA b :
    [b EXCEPT !.power = FALSE, !.ret = 0]))

\* imx662_set_stream
Fr_set_stream(s, enable) ==
    IF s.streaming = enable THEN [s EXCEPT !.ret = 0]
    ELSE IF enable
    THEN Then(IF s.power THEN [s EXCEPT !.usage = @ + 1, !.ret = 0]
              ELSE Fr_power_on([s EXCEPT !.usage = @ + 1]), LAMBDA a :
         Then(Fr_start_streaming(a), LAMBDA b :
         IF b.ret # 0 THEN [b EXCEPT !.usage = @ - 1]
         ELSE [b EXCEPT !.streaming = TRUE, !.grab = TRUE]))
    ELSE Then(Fr_stop_streaming(s), LAMBDA t :
         [t EXCEPT !.usage = @ - 1, !.streaming = FALSE, !.grab = FALSE])

\* imx662_suspend
Fr_suspend(s) ==
    IF s.streaming THEN Fr_stop_streaming(s) ELSE [s EXCEPT !.ret = 0]

\* imx662_resume
Fr_resume(s) ==
    IF s.streaming
    THEN Then(Fr_start_streaming(s), LAMBDA a :
         IF a.ret # 0
         THEN Then(Fr_stop_streaming(a), LAMBDA t :
                   [t EXCEPT !.streaming = FALSE, !.ret = a.ret])
         ELSE [a EXCEPT !.ret = 0])
    ELSE [s EXCEPT !.ret = 0]

----------------------------------------------------------------------------
(* mipi: src/IMX662_driver/imx662_mipi.c, mode pimx662_mode_info[0] *)

IMX662_MAX_GAIN_DEC == 240
IMX662_MAX_GAIN_DB == 72
IMX662_MAX_BOUNDS_HEIGHT == 1250
IMX662_LINE_TIME_H990 == 13333
IMX662_LINE_TIME_H660 == 8904
IMX662_MIN_SHR0_CLEAR_LENGTH == 8
IMX662_MIN_SHR0_RHS1_DIST == 5
IMX662_MIN_SHR1_LENGTH == 5
IMX662_MAX_VS_INTEGRATION_LINES == 66
IMX662_MIN_VS_INTEGRATION_LINES == 2
IMX662_BRL == 1120
IMX662_DOL_INDEX == 4
IMX662_BINNING_MODE == 1
IMX662_INCK == 74250000
IMX662_891_MBPS == 5
IMX662_720_MBPS == 6
IMX662_594_MBPS == 7
IMX662_CLEAR_INDEX == 5

\* a u32 is held as its 32-bit two's-complement reading, so a subtraction
\* that wraps below zero is a negative number here; U32Lt and U32Max are the
\* unsigned comparison and max_t(u32, ...)
U32Lt(a, b) == IF (a < 0) = (b < 0) THEN a < b ELSE b < 0
U32Max(a, b) == IF U32Lt(a, b) THEN b ELSE a

\* ae_info of pimx662_mode_info[0..5], entry index + 1 for mode index
pimx662_mode_info ==
    << [index |-> 0, def_frm_len_lines |-> IMX662_MAX_BOUNDS_HEIGHT,
        curr_frm_len_lines |-> IMX662_MAX_BOUNDS_HEIGHT,
        one_line_exp_time_ns |-> IMX662_LINE_TIME_H990,
        max_integration_line |-> IMX662_MAX_BOUNDS_HEIGHT - 4,
        min_integration_line |-> IMX662_MIN_INTEGRATION_LINES,
        max_vsintegration_line |-> 0, min_vsintegration_line |-> 0,
        cur_fps |-> 30 * 1024, max_fps |-> 60 * 1024, min_fps |-> 5 * 1024],
       [index |-> 1, def_frm_len_lines |-> IMX662_MAX_BOUNDS_HEIGHT,
        curr_frm_len_lines |-> IMX662_MAX_BOUNDS_HEIGHT,
        one_line_exp_time_ns |-> IMX662_LINE_TIME_H990,
        max_integration_line |-> IMX662_MAX_BOUNDS_HEIGHT - 4,
        min_integration_line |-> IMX662_MIN_INTEGRATION_LINES,
        max_vsintegration_line |-> 0, min_vsintegration_line |-> 0,
        cur_fps |-> 60 * 1024, max_fps |-> 60 * 1024, min_fps |-> 5 * 1024],
       [index |-> 2, def_frm_len_lines |-> IMX662_MAX_BOUNDS_HEIGHT,
        curr_frm_len_lines |-> IMX662_MAX_BOUNDS_HEIGHT,
        one_line_exp_time_ns |-> IMX662_LINE_TIME_H660,
        max_integration_line |-> IMX662_MAX_BOUNDS_HEIGHT - 4,
        min_integration_line |-> IMX662_MIN_INTEGRATION_LINES,
        max_vsintegration_line |-> 0, min_vsintegration_line |-> 0,
        cur_fps |-> 90 * 1024, max_fps |-> 90 * 1024, min_fps |-> 5 * 1024],
       [index |-> 3, def_frm_len_lines |-> IMX662_MAX_BOUNDS_HEIGHT,
        curr_frm_len_lines |-> IMX662_MAX_BOUNDS_HEIGHT,
        one_line_exp_time_ns |-> IMX662_LINE_TIME_H660,
        max_integration_line |-> IMX662_MAX_BOUNDS_HEIGHT - 4,
        min_integration_line |-> IMX662_MIN_INTEGRATION_LINES,
        max_vsintegration_line |-> 0, min_vsintegration_line |-> 0,
        cur_fps |-> 60 * 1024, max_fps |-> 100 * 1024, min_fps |-> 5 * 1024],
       [index |-> IMX662_DOL_INDEX,
        def_frm_len_lines |-> IMX662_MAX_BOUNDS_HEIGHT,
        curr_frm_len_lines |-> IMX662_MAX_BOUNDS_HEIGHT,
        one_line_exp_time_ns |-> IMX662_LINE_TIME_H990,
        max_integration_line |->
            2 * IMX662_MAX_BOUNDS_HEIGHT - IMX662_MAX_VS_INTEGRATION_LINES,
        min_integration_line |-> IMX662_MIN_INTEGRATION_LINES,
        max_vsintegration_line |-> IMX662_MAX_VS_INTEGRATION_LINES,
        min_vsintegration_line |-> IMX662_MIN_VS_INTEGRATION_LINES,
        cur_fps |-> 30 * 1024, max_fps |-> 30 * 1024, min_fps |-> 1 * 1024],
       [index |-> IMX662_CLEAR_INDEX,
        def_frm_len_lines |-> IMX662_MAX_BOUNDS_HEIGHT * 2,
        curr_frm_len_lines |-> IMX662_MAX_BOUNDS_HEIGHT * 2,
        one_line_exp_time_ns |-> IMX662_LINE_TIME_H990,
        max_integration_line |-> IMX662_MAX_BOUNDS_HEIGHT * 2 - 4,
        min_integration_line |-> 8,
        max_vsintegration_line |-> 0, min_vsintegration_line |-> 0,
        cur_fps |-> 30 * 1024, max_fps |-> 30 * 1024, min_fps |-> 5 * 1024] >>

\* imx662_set_exp and imx662_set_vs_exp: the exposure time converted to
\* lines of one_line_exp_time_ns (the product is 64 bits wide)
Mipi_integration_time_line(exp, which_control, one_line_exp_time_ns) ==
    IF which_control = 0
    THEN MulDiv(exp \div 1024, IMX662_K_FACTOR, one_line_exp_time_ns)
    ELSE MulDiv(exp, IMX662_K_FACTOR, one_line_exp_time_ns)

\* imx662_set_exp without the final clamp to the minimum shutter length
Mipi_reg_shr0_unclamped(index, frame_length, t, min_il, max_il) ==
    LET t1 == IF t > max_il THEN max_il ELSE t
        integration_time_line == IF t1 < min_il THEN min_il ELSE t1
        top == IF index = IMX662_DOL_INDEX THEN 2 * frame_length
               ELSE frame_length
    IN top - integration_time_line

\* imx662_set_exp with the limit against the frame length but without the
\* final max_t against the minimum shutter length
Mipi_reg_shr0_no_floor(index, frame_length, t, min_il, max_il) ==
    LET t1 == IF t > max_il THEN max_il ELSE t
        integration_time_line == IF t1 < min_il THEN min_il ELSE t1
        top == IF index = IMX662_DOL_INDEX THEN 2 * frame_length
               ELSE frame_length
        r0 == top - integration_time_line
        r1 == IF index = IMX662_DOL_INDEX /\ r0 % 2 = 1 THEN r0 - 1 ELSE r0
    IN IF U32Lt(top - IMX662_MIN_INTEGRATION_LINES, r1)
       THEN top - IMX662_MIN_INTEGRATION_LINES ELSE r1

\* imx662_set_exp: the value of reg_shr0 for a line count t, in the mode
\* index with frame length frame_length and the integration-line range
\* min_il..max_il of ae_info
Mipi_reg_shr0(index, frame_length, t, min_il, max_il) ==
    LET t1 == IF t > max_il THEN max_il ELSE t
        integration_time_line == IF t1 < min_il THEN min_il ELSE t1
        top == IF index = IMX662_DOL_INDEX THEN 2 * frame_length
               ELSE frame_length
        r0 == top - integration_time_line
        r1 == IF index = IMX662_DOL_INDEX /\ r0 % 2 = 1 THEN r0 - 1 ELSE r0
        r2 == IF U32Lt(top - IMX662_MIN_INTEGRATION_LINES, r1)
              THEN top - IMX662_MIN_INTEGRATION_LINES ELSE r1
        min_shr0 == IF index = IMX662_CLEAR_INDEX
                    THEN IMX662_MIN_SHR0_CLEAR_LENGTH
                    ELSE IMX662_MIN_SHR0_LENGTH
    IN U32Max(min_shr0, r2)

\* imx662_set_vs_exp: the value of reg_rhs1 for the main shutter reg_shr0
\* read back from the sensor and a line count t
Mipi_reg_rhs1(reg_shr0, t, min_vsil, max_vsil) ==
    LET t1 == IF t < min_vsil THEN min_vsil ELSE t
        integration_time_line == IF t1 > max_vsil THEN max_vsil ELSE t1
        reg_shr1 == IMX662_MIN_SHR1_LENGTH
        r1 == U32Max(2 * IMX662_BRL - 1, reg_shr0 - IMX662_MIN_SHR0_RHS1_DIST)
        r2 == IF ~U32Lt(r1, reg_shr0) THEN reg_shr0 - 5 ELSE r1
    IN IF U32Lt(integration_time_line, r2 - reg_shr1)
       THEN LET r3 == integration_time_line + reg_shr1
            IN IF r3 % 2 = 1 THEN r3 ELSE r3 - 1
       ELSE r2

\* imx662_adjust_hmax_register: hmax for the DATARATE_SEL and ADDMODE values
\* read back, -1 for the combination it refuses; ~binning_mode is the
\* bitwise complement of the promoted byte, -binning_mode - 1 (a variant
\* that gives 990 for every 594 Mbps setting, for contrast)
Mipi_adjust_hmax_unbinned(data_rate, binning_mode) ==
    IF data_rate = IMX662_720_MBPS THEN 660
    ELSE IF data_rate = IMX662_594_MBPS THEN 990 ELSE -1
Mipi_adjust_hmax(data_rate, binning_mode) ==
    IF data_rate = IMX662_720_MBPS /\ (-binning_mode - 1) # 0 THEN 660
    ELSE IF data_rate = IMX662_594_MBPS
         THEN IF binning_mode # 0 THEN 660 ELSE 990
         ELSE -1

\* imx662_set_fps without the rounding to an even value
Mipi_fps_reg_unrounded(index, fps, line_time) ==
    LET r0 == IMX662_G_FACTOR \div ((fps \div 1024) * line_time)
    IN IF index = IMX662_DOL_INDEX THEN r0 \div 2 ELSE r0

\* imx662_set_fps: the value of fps_reg for the clamped rate fps
Mipi_fps_reg(index, fps, line_time) ==
    LET r0 == IMX662_G_FACTOR \div ((fps \div 1024) * line_time)
        r1 == IF index = IMX662_DOL_INDEX THEN r0 \div 2 ELSE r0
    IN IF r1 % 2 = 1 THEN r1 + 1 ELSE r1

\* controls of imx662_probe that the model follows, in creation order
Mipi_ctrl_order == <<"exposure", "gain", "sync_mode">>

\* imx662_configure_triggering_pins: the result of the read is dropped, so
\* after a failed read the local extmode (em) holds whatever was on the stack
Mipi_configure_triggering_pins(s) ==
    Then(Read(s, "EXTMODE"), LAMBDA a :
    LET em == IF a.ok THEN a.extmode ELSE a.garbage
    IN Write(a, "XVS_XHS_DRV",
             IF em = INTERNAL_SYNC THEN 0
             ELSE IF em = EXTERNAL_SYNC THEN 3
             ELSE 15))

\* imx662_set_sync_mode
Mipi_set_sync_mode(s, v) ==
    Then(IF s.power
         THEN Write(s, "EXTMODE", IF v = EXTERNAL_SYNC THEN 1 ELSE 0)
         ELSE [s EXCEPT !.ret = 0], LAMBDA a :
    IF a.ret < 0 THEN a
    ELSE Then(Mipi_configure_triggering_pins(a), LAMBDA b :
         IF b.ret < 0 THEN [b EXCEPT !.ret = EINVAL] ELSE b))

\* imx662_set_exp in the all-pixel mode; the three byte writes of SHR0 are
\* one transfer, and every transfer is made whatever the earlier ones
\* returned
Mipi_set_exp(s, exp, which_control) ==
    LET m == pimx662_mode_info[1]
        t == Mipi_integration_time_line(exp, which_control,
                                        m.one_line_exp_time_ns)
        reg_shr0 == Mipi_reg_shr0(m.index, s.VMAX, t, m.min_integration_line,
                                  m.max_integration_line)
    IN Then(Write(s, "REGHOLD", 1), LAMBDA a :
       Then(Write(a, "SHR", reg_shr0), LAMBDA b :
       Then(Write(b, "REGHOLD", 0), LAMBDA c :
       [c EXCEPT !.ret = IF a.ok /\ b.ok /\ c.ok THEN 0 ELSE EIO])))

\* imx662_set_gain for a V4L2 control value
Mipi_set_gain(s, gain) ==
    LET gain_reg == (gain * IMX662_MAX_GAIN_DEC) \div (IMX662_MAX_GAIN_DB * 10)
    IN Then(Write(s, "REGHOLD", 1), LAMBDA a :
       Then(Write(a, "GAIN", gain_reg), LAMBDA b :
       Then(Write(b, "REGHOLD", 0), LAMBDA c :
       [c EXCEPT !.ret = IF a.ok /\ b.ok /\ c.ok THEN 0 ELSE EIO])))

\* imx662_s_ctrl
Mipi_s_ctrl(s, id, v) ==
    IF ~s.power THEN [s EXCEPT !.ret = 0]
    ELSE CASE id = "gain" -> Mipi_set_gain(s, v)
           [] id = "exposure" -> Mipi_set_exp(s, v, 1)
           [] id = "sync_mode" -> Mipi_set_sync_mode(s, v)
           [] OTHER -> [s EXCEPT !.ret = EINVAL]

\* imx662_s_stream: the status is recorded first and the results of the
\* register writes are dropped
Mipi_s_stream(s, enable) ==
    Then([s EXCEPT !.streaming = enable, !.ret = 0], LAMBDA s1 :
    IF enable
    THEN Then(IF s1.gmsl THEN Collab(s1, "max96793_setup_streaming")
              ELSE s1, LAMBDA a :
         IF a.ret # 0 THEN a
         ELSE Then(IF s1.gmsl THEN Collab(a, "max96792_setup_streaming")
                   ELSE a, LAMBDA b :
              IF b.ret # 0 THEN b
              ELSE Then(IF s1.gmsl
                        THEN Collab(b, "max96792_start_streaming")
                        ELSE b, LAMBDA c :
                   IF c.ret # 0 THEN c
                   ELSE Then(Write(c, "STANDBY", 0), LAMBDA d :
                        Then(Write(Delay(d, 30000), "XMSTA", 0), LAMBDA e :
                        [Delay(e, 300000) EXCEPT !.ret = 0])))))
    ELSE Then(IF s1.gmsl THEN Collab(s1, "max96792_stop_streaming")
              ELSE s1, LAMBDA a :
         Then(Write(a, "STANDBY", 1), LAMBDA d :
         Then(Write(Delay(d, 30000), "XMSTA", 1), LAMBDA e :
         [e EXCEPT !.ret = 0]))))

\* imx662_power_on (the reset GPIO was validated by imx662_probe)
Mipi_power_on(s) ==
    Then(IF s.gmsl THEN Collab(s, "max96792_power_on") ELSE s, LAMBDA a :
    Delay([a EXCEPT !.power = TRUE, !.ret = 0], 35000))

\* imx662_power_off; the reset line returns the sensor registers to their
\* defaults
Mipi_power_off(s) ==
    Then(IF s.gmsl THEN Collab(s, "max96792_power_off") ELSE s, LAMBDA a :
    Delay([a EXCEPT !.power = FALSE, !.extmode = 0, !.ret = 0], 128000))

\* imx662_s_power
Mipi_s_power(s, on) ==
    IF on THEN Mipi_power_on(s) ELSE Mipi_power_off(s)

\* imx662_suspend
Mipi_suspend(s) ==
    IF s.streaming
    THEN Mipi_s_stream([s EXCEPT !.resume_status = TRUE], FALSE)
    ELSE [s EXCEPT !.resume_status = FALSE, !.ret = 0]

\* imx662_resume
Mipi_resume(s) ==
    IF s.resume_status
    THEN Then(Mipi_s_stream(s, TRUE), LAMBDA a : [a EXCEPT !.ret = 0])
    ELSE [s EXCEPT !.ret = 0]

\* imx662_priv_ioctl for the commands the model follows; the translators
\* are called without looking at powered_on
Mipi_priv_ioctl(s, cmd, arg) ==
    CASE cmd = "S_STREAM" -> Mipi_s_stream(s, arg # 0)
      [] cmd = "S_EXP" -> Mipi_set_exp(s, arg, 0)
      [] cmd = "S_SYNC_MODE" -> Mipi_set_sync_mode(s, arg)
      [] OTHER -> [s EXCEPT !.ret = EINVAL]

----------------------------------------------------------------------------
(* The control handler the framework calls, per driver variant *)

s_ctrl(s, id, v) ==
    CASE s.drv = "rpi" -> Rpi_set_ctrl(s, id, v)
      [] s.drv = "fr" -> Fr_set_ctrl(s, id, v)
      [] s.drv = "mipi" -> Mipi_s_ctrl(s, id, v)

----------------------------------------------------------------------------
(* State after probe *)

Drivers == {"rpi", "fr", "mipi"}

Rpi_ctrl_ids == {"vblank", "hblank", "exposure", "gain", "hflip", "vflip"}

Mipi_ctrl_ids == {"exposure", "gain", "sync_mode"}

Fr_ctrl_ids ==
    {"vblank", "exposure", "framerate", "operation_mode", "sync_mode",
     "blklvl", "gain", "hflip", "vflip", "test_pattern"}

\* the record an operation works on, built from the current state
Ctx(fa, st, g) ==
    [drv |-> drv, gmsl |-> gmsl, power |-> power, usage |-> usage,
     streaming |-> streaming, resume_status |-> resume_status,
     crw |-> common_regs_written, mode |-> mode, VMAX |-> VMAX,
     HMAX |-> HMAX, ctrl |-> ctrl, val |-> pnew, rng |-> rng,
     grab |-> grab, extmode |-> extmode, cc |-> commonWrites,
     n |-> 0, fa |-> fa, st |-> st, log |-> <<>>, ok |-> TRUE, ret |-> 0,
     garbage |-> g]

\* imx662_probe up to imx662_init_controls: the controls as created, then
\* imx662_set_framing_limits for supported_modes_12bit[0]; the device is
\* runtime-suspended by pm_runtime_idle before the controls exist
Rpi_probe ==
    Rpi_set_framing_limits(
      [drv |-> "rpi", gmsl |-> FALSE, power |-> FALSE, usage |-> 0,
       streaming |-> FALSE, resume_status |-> FALSE, crw |-> FALSE,
       mode |-> 1, VMAX |-> 0, HMAX |-> 0,
       ctrl |-> [i \in Rpi_ctrl_ids |->
                   IF i = "exposure" THEN IMX662_EXPOSURE_DEFAULT ELSE 0],
       val |-> [i \in Rpi_ctrl_ids |->
                  IF i = "exposure" THEN IMX662_EXPOSURE_DEFAULT ELSE 0],
       rng |-> [i \in Rpi_ctrl_ids |->
                  CASE i = "vblank" -> <<0, IMX662_VMAX_MAX>>
                    [] i = "hblank" -> <<0, IMX662_HMAX_MAX>>
                    [] i = "exposure" ->
                         <<IMX662_EXPOSURE_MIN, IMX662_EXPOSURE_MAX>>
                    [] i = "gain" -> <<0, IMX662_ANA_GAIN_MAX>>
                    [] OTHER -> <<0, 1>>],
       grab |-> FALSE, extmode |-> 0, cc |-> 0,
       n |-> 0, fa |-> 0, st |-> FALSE, log |-> <<>>, ok |-> TRUE,
       ret |-> 0, garbage |-> 0])

\* imx662_probe up to imx662_init_controls (fr): the controls as created,
\* then imx662_set_limits for modes_12bit[0]; the device is
\* runtime-suspended by pm_runtime_idle before the controls exist
Fr_probe(g) ==
    Fr_set_limits(
      [drv |-> "fr", gmsl |-> g, power |-> FALSE, usage |-> 0,
       streaming |-> FALSE, resume_status |-> FALSE, crw |-> FALSE,
       mode |-> 1, VMAX |-> 0, HMAX |-> 0,
       ctrl |-> [i \in Fr_ctrl_ids |->
                   CASE i = "exposure" -> 255
                     [] i = "framerate" -> 65535
                     [] i = "blklvl" -> 255
                     [] OTHER -> 0],
       val |-> [i \in Fr_ctrl_ids |->
                   CASE i = "exposure" -> 255
                     [] i = "framerate" -> 65535
                     [] i = "blklvl" -> 255
                     [] OTHER -> 0],
       rng |-> [i \in Fr_ctrl_ids |->
                  CASE i = "vblank" -> <<0, 0>>
                    [] i = "exposure" -> <<IMX662_MIN_INTEGRATION_LINES, 255>>
                    [] i = "framerate" -> <<1, 65535>>
                    [] i = "operation_mode" -> <<0, 1>>
                    [] i = "sync_mode" -> <<0, 2>>
                    [] i = "blklvl" -> <<0, 255>>
                    [] i = "gain" -> <<0, IMX662_ANA_GAIN_MAX>>
                    [] i = "test_pattern" -> <<0, 12>>
                    [] OTHER -> <<0, 1>>],
       grab |-> FALSE, extmode |-> 0, cc |-> 0,
       n |-> 0, fa |-> 0, st |-> FALSE, log |-> <<>>, ok |-> TRUE,
       ret |-> 0, garbage |-> 0])

\* imx662_probe (mipi): powered on, the controls at their defaults and
\* handed to the sensor by v4l2_ctrl_handler_setup
Mipi_probe(g) ==
    [drv |-> "mipi", gmsl |-> g, power |-> TRUE, usage |-> 0,
     streaming |-> FALSE, resume_status |-> FALSE, crw |-> FALSE,
     mode |-> 1, VMAX |-> IMX662_MAX_BOUNDS_HEIGHT, HMAX |-> 0,
     ctrl |-> [i \in Mipi_ctrl_ids |-> IF i = "exposure" THEN 1000 ELSE 0],
     val |-> [i \in Mipi_ctrl_ids |-> IF i = "exposure" THEN 1000 ELSE 0],
     rng |-> [i \in Mipi_ctrl_ids |->
                CASE i = "exposure" -> <<3, 30000>>
                  [] i = "gain" -> <<0, 240>>
                  [] OTHER -> <<0, 2>>],
     grab |-> FALSE, extmode |-> 0, cc |-> 0,
     n |-> 0, fa |-> 0, st |-> FALSE, log |-> <<>>, ok |-> TRUE,
     ret |-> 0, garbage |-> 0]

ProbeState(d, g) ==
    CASE d = "rpi" -> Rpi_probe
      [] d = "fr" -> Fr_probe(g)
      [] d = "mipi" -> Mipi_probe(g)

NoOp == [op |-> "probe", id |-> "", val |-> 0, ret |-> 0, locked |-> TRUE,
         preStreaming |-> FALSE, prePower |-> FALSE]

\* no driver function is being followed step by step
NoCall == [fn |-> "none"]

\* the driver instance after a successful probe
DriverInit ==
    \E d \in Drivers, g \in BOOLEAN :
        /\ (d = "rpi" => ~g)
        /\ \E s \in {ProbeState(d, g)} :
              /\ drv = d
              /\ gmsl = g
              /\ power = s.power
              /\ usage = s.usage
              /\ streaming = s.streaming
              /\ resume_status = s.resume_status
              /\ common_regs_written = s.crw
              /\ suspended = FALSE
              /\ mode = s.mode
              /\ VMAX = s.VMAX
              /\ HMAX = s.HMAX
              /\ ctrl = s.ctrl
              /\ pnew = s.val
              /\ rng = s.rng
              /\ grab = s.grab
              /\ extmode = s.extmode
              /\ trace = <<>>
              /\ last = NoOp
              /\ commonWrites = 0
              /\ activeAtSuspend = FALSE
              /\ steps = 0
              /\ faults = 0
              /\ pendingOff = {}

Init == DriverInit /\ loc = NoCall

\* the sensor register that carries a control: the register the set_ctrl
\* switch of each driver writes for it
CtrlReg(d, id) ==
    CASE id = "exposure" -> "SHR"
      [] id = "gain" -> "GAIN"
      [] id = "vblank" -> "VMAX"
      [] id = "framerate" -> "VMAX"
      [] id = "hblank" -> "HMAX"
      [] id = "hflip" -> IF d = "rpi" THEN "WINMODEH" ELSE "HREVERSE"
      [] id = "vflip" -> IF d = "rpi" THEN "WINMODEV" ELSE "VREVERSE"
      [] id = "blklvl" -> "BLKLEVEL"
      [] id = "sync_mode" -> "EXTMODE"
      [] id = "test_pattern" -> "TPG_TABLE"
      [] OTHER -> "none"

\* controls whose register a completed transfer of log wrote
Written(d, ids, log) ==
    {i \in ids : \E k \in DOMAIN log :
                    log[k].reg = CtrlReg(d, i) /\ log[k].ok}

\* the state after an operation that ended in record s
Commit(s, op, id, val, locked) ==
    /\ power' = s.power
    /\ usage' = s.usage
    /\ streaming' = s.streaming
    /\ resume_status' = s.resume_status
    /\ common_regs_written' = s.crw
    /\ mode' = s.mode
    /\ VMAX' = s.VMAX
    /\ HMAX' = s.HMAX
    /\ ctrl' = s.ctrl
    /\ pnew' = s.val
    /\ rng' = s.rng
    /\ grab' = s.grab
    /\ extmode' = s.extmode
    /\ commonWrites' = s.cc
    /\ trace' = s.log
    /\ last' = [op |-> op, id |-> id, val |-> val, ret |-> s.ret,
                locked |-> locked, preStreaming |-> streaming,
                prePower |-> power]
    /\ steps' = steps + 1
    /\ faults' = IF s.fa > 0 THEN faults + 1 ELSE faults
    /\ pendingOff' =
          LET new == IF op = "set_ctrl" /\ ~power /\ s.ret = 0
                        /\ s.ctrl[id] # ctrl[id]
                        /\ CtrlReg(drv, id) # "none"
                     THEN {id} ELSE {}
          IN (pendingOff \cup new) \ Written(drv, pendingOff \cup new, s.log)
    /\ UNCHANGED <<drv, gmsl, loc>>

\* An action first runs its handler without a failure (s0) to learn how
\* many transfers it makes, then runs it under one of the failure patterns;
\* under the pattern without a failure the result is s0 itself.
\* the failure patterns <<fa, st>> an operation is run under: no failure
\* (position 0) or, while the behaviour has failures left, one failing
\* transfer at any position of the failure-free run s0, or a bus on which
\* every transfer fails
FailAt(s0) ==
    {<<0, FALSE>>} \cup
    IF faults < MaxFaults /\ s0.n > 0
    THEN {<<i, FALSE>> : i \in 1 .. Min(s0.n, MaxXfer)} \cup {<<1, TRUE>>}
    ELSE {}

----------------------------------------------------------------------------
(* rpi: the operations the host can invoke *)

\* values an uninitialised 64-bit local may hold
Garbage == {0, 2147483647}

Rpi_ctrl_inputs ==
    { <<"vblank", 150>>, <<"vblank", 400>>,
      <<"exposure", 1480>>, <<"gain", 100>>, <<"vflip", 1>> }

Rpi_fmt_inputs ==
    { <<"12", 1936, 1100>>, <<"nl12", 1936, 1096>> }

\* the controls imx662_set_stream grabs while streaming
Rpi_grabbed == {"vflip"}

\* VIDIOC_S_STREAM -> imx662_set_stream, which takes the mutex itself
Rpi_SetStream ==
    /\ drv = "rpi" /\ steps < MaxOps /\ ~suspended
    /\ \E enable \in BOOLEAN, g \in Garbage,
          pwr \in IF power THEN {TRUE} ELSE BOOLEAN :
         /\ enable => usage < MaxUsage
         /\ \E s0 \in {Rpi_set_stream(cx, enable, pwr)
                        : cx \in {Ctx(0, FALSE, g)}} :
            \E f \in FailAt(s0) :
              \E s \in {IF f[1] = 0 THEN s0
                        ELSE Rpi_set_stream(cx, enable, pwr)
                         : cx \in {Ctx(f[1], f[2], g)}} :
                 Commit(s, "set_stream", "", IF enable THEN 1 ELSE 0, TRUE)
    /\ UNCHANGED <<suspended, activeAtSuspend>>

\* VIDIOC_S_CTRL -> v4l2_s_ctrl -> imx662_set_ctrl, under the handler lock,
\* which imx662_init_controls makes the driver mutex; a grabbed control
\* is refused by the framework
Rpi_SetCtrl ==
    /\ drv = "rpi" /\ steps < MaxOps /\ ~suspended
    /\ \E c \in Rpi_ctrl_inputs :
       \E g \in IF c[1] = "vblank" THEN Garbage ELSE {0} :
         \E s0 \in {IF grab /\ c[1] \in Rpi_grabbed
                      THEN [cx EXCEPT !.ret = EBUSY]
                      ELSE FwSCtrl(cx, c[1], c[2])
                     : cx \in {Ctx(0, FALSE, g)}} :
         \E f \in FailAt(s0) :
            \E s \in {IF f[1] = 0 THEN s0 ELSE FwSCtrl(cx, c[1], c[2])
                       : cx \in {Ctx(f[1], f[2], g)}} :
               Commit(s, "set_ctrl", c[1], c[2], TRUE)
    /\ UNCHANGED <<suspended, activeAtSuspend>>

\* VIDIOC_SUBDEV_S_FMT -> imx662_set_pad_format
Rpi_SetPadFormat ==
    /\ drv = "rpi" /\ steps < MaxOps /\ ~suspended
    /\ \E c \in Rpi_fmt_inputs, g \in Garbage :
         \E s0 \in {Rpi_set_pad_format(cx, c[1], c[2], c[3])
                     : cx \in {Ctx(0, FALSE, g)}} :
         \E f \in FailAt(s0) :
            \E s \in {IF f[1] = 0 THEN s0
                      ELSE Rpi_set_pad_format(cx, c[1], c[2], c[3])
                       : cx \in {Ctx(f[1], f[2], g)}} :
               Commit(s, "set_pad_format", c[1], c[2], TRUE)
    /\ UNCHANGED <<suspended, activeAtSuspend>>

\* system sleep: imx662_suspend, called by the PM core without the mutex
Rpi_Suspend ==
    /\ drv = "rpi" /\ steps < MaxOps /\ ~suspended
    /\ \E s0 \in {Rpi_suspend(cx)
                   : cx \in {Ctx(0, FALSE, 0)}} :
       \E f \in FailAt(s0) :
         \E s \in {IF f[1] = 0 THEN s0 ELSE Rpi_suspend(cx)
                    : cx \in {Ctx(f[1], f[2], 0)}} :
            Commit(s, "suspend", "", 0, FALSE)
    /\ suspended' = TRUE
    /\ activeAtSuspend' = streaming

\* system wake-up: imx662_resume, called by the PM core without the mutex
Rpi_Resume ==
    /\ drv = "rpi" /\ steps < MaxOps /\ suspended
    /\ \E g \in Garbage :
         \E s0 \in {Rpi_resume(cx)
                     : cx \in {Ctx(0, FALSE, g)}} :
         \E f \in FailAt(s0) :
            \E s \in {IF f[1] = 0 THEN s0 ELSE Rpi_resume(cx)
                       : cx \in {Ctx(f[1], f[2], g)}} :
               Commit(s, "resume", "", 0, FALSE)
    /\ suspended' = FALSE
    /\ UNCHANGED activeAtSuspend

\* runtime PM: the asynchronous idle that pm_runtime_put queues runs
\* imx662_power_off once the usage count is zero
Rpi_RuntimeSuspend ==
    /\ drv = "rpi" /\ steps < MaxOps /\ ~suspended /\ power /\ usage = 0
    /\ \E s \in {Rpi_power_off(cx)
                  : cx \in {Ctx(0, FALSE, 0)}} :
         Commit(s, "power_off", "", 0, FALSE)
    /\ UNCHANGED <<suspended, activeAtSuspend>>

----------------------------------------------------------------------------
(* fr: the operations the host can invoke *)

Fr_ctrl_inputs ==
    { <<"framerate", 30000000>>, <<"framerate", 65000000>>,
      <<"exposure", 2000>>, <<"sync_mode", 2>>,
      <<"operation_mode", SLAVE_MODE>>, <<"blklvl", 203>> }

Fr_fmt_inputs ==
    { <<"12", 1920, 1080>>, <<"10", 1280, 720>> }

\* the controls imx662_set_stream grabs while streaming
Fr_grabbed == {"vflip", "hflip", "operation_mode", "sync_mode"}

\* VIDIOC_S_STREAM -> imx662_set_stream, which takes the mutex itself
Fr_SetStream ==
    /\ drv = "fr" /\ steps < MaxOps /\ ~suspended
    /\ \E enable \in BOOLEAN :
         /\ enable => usage < MaxUsage
         /\ \E s0 \in {Fr_set_stream(cx, enable)
                        : cx \in {Ctx(0, FALSE, 0)}} :
            \E f \in FailAt(s0) :
              \E s \in {IF f[1] = 0 THEN s0 ELSE Fr_set_stream(cx, enable)
                         : cx \in {Ctx(f[1], f[2], 0)}} :
                 Commit(s, "set_stream", "", IF enable THEN 1 ELSE 0, TRUE)
    /\ UNCHANGED <<suspended, activeAtSuspend>>

\* VIDIOC_S_CTRL -> v4l2_s_ctrl -> imx662_set_ctrl, under the handler lock,
\* which imx662_init_controls makes the driver mutex; a grabbed control
\* is refused by the framework
Fr_SetCtrl ==
    /\ drv = "fr" /\ steps < MaxOps /\ ~suspended
    /\ \E c \in Fr_ctrl_inputs :
         \E s0 \in {IF grab /\ c[1] \in Fr_grabbed
                      THEN [cx EXCEPT !.ret = EBUSY]
                      ELSE FwSCtrl(cx, c[1], c[2])
                     : cx \in {Ctx(0, FALSE, 0)}} :
         \E f \in FailAt(s0) :
            \E s \in {IF f[1] = 0 THEN s0 ELSE FwSCtrl(cx, c[1], c[2])
                       : cx \in {Ctx(f[1], f[2], 0)}} :
               Commit(s, "set_ctrl", c[1], c[2], TRUE)
    /\ UNCHANGED <<suspended, activeAtSuspend>>

\* VIDIOC_SUBDEV_S_FMT -> imx662_set_pad_format
Fr_SetPadFormat ==
    /\ drv = "fr" /\ steps < MaxOps /\ ~suspended
    /\ \E c \in Fr_fmt_inputs :
         \E s0 \in {Fr_set_pad_format(cx, c[1], c[2], c[3])
                     : cx \in {Ctx(0, FALSE, 0)}} :
         \E f \in FailAt(s0) :
            \E s \in {IF f[1] = 0 THEN s0
                      ELSE Fr_set_pad_format(cx, c[1], c[2], c[3])
                       : cx \in {Ctx(f[1], f[2], 0)}} :
               Commit(s, "set_pad_format", c[1], c[2], TRUE)
    /\ UNCHANGED <<suspended, activeAtSuspend>>

\* system sleep: imx662_suspend, called by the PM core without the mutex
Fr_Suspend ==
    /\ drv = "fr" /\ steps < MaxOps /\ ~suspended
    /\ \E s0 \in {Fr_suspend(cx)
                   : cx \in {Ctx(0, FALSE, 0)}} :
       \E f \in FailAt(s0) :
         \E s \in {IF f[1] = 0 THEN s0 ELSE Fr_suspend(cx)
                    : cx \in {Ctx(f[1], f[2], 0)}} :
            Commit(s, "suspend", "", 0, FALSE)
    /\ suspended' = TRUE
    /\ activeAtSuspend' = streaming

\* system wake-up: imx662_resume, called by the PM core without the mutex
Fr_Resume ==
    /\ drv = "fr" /\ steps < MaxOps /\ suspended
    /\ \E s0 \in {Fr_resume(cx)
                   : cx \in {Ctx(0, FALSE, 0)}} :
       \E f \in FailAt(s0) :
         \E s \in {IF f[1] = 0 THEN s0 ELSE Fr_resume(cx)
                    : cx \in {Ctx(f[1], f[2], 0)}} :
            Commit(s, "resume", "", 0, FALSE)
    /\ suspended' = FALSE
    /\ UNCHANGED activeAtSuspend

\* runtime PM: the asynchronous idle that pm_runtime_put queues runs
\* imx662_power_off once the usage count is zero; its register write is
\* made before the mutex is taken
Fr_RuntimeSuspend ==
    /\ drv = "fr" /\ steps < MaxOps /\ ~suspended /\ power /\ usage = 0
    /\ \E s0 \in {Fr_power_off(cx)
                   : cx \in {Ctx(0, FALSE, 0)}} :
       \E f \in FailAt(s0) :
         \E s \in {IF f[1] = 0 THEN s0 ELSE Fr_power_off(cx)
                    : cx \in {Ctx(f[1], f[2], 0)}} :
            Commit(s, "power_off", "", 0, FALSE)
    /\ UNCHANGED <<suspended, activeAtSuspend>>

----------------------------------------------------------------------------
(* mipi: the operations the host can invoke *)

\* values the uninitialised u8 local of imx662_configure_triggering_pins
\* may hold, one for each branch it selects
MipiGarbage == {0, 1, 2}

\* gain values are multiples of the control's step
Mipi_ctrl_inputs ==
    { <<"exposure", 20000>>, <<"gain", 99>>, <<"sync_mode", 2>> }

Mipi_ioctl_inputs ==
    { <<"S_STREAM", 1>>, <<"S_STREAM", 0>>, <<"S_EXP", 10240000>>,
      <<"S_SYNC_MODE", 2>> }

\* s_stream video operation -> imx662_s_stream, which takes no lock
Mipi_SStream ==
    /\ drv = "mipi" /\ steps < MaxOps /\ ~suspended
    /\ \E enable \in BOOLEAN :
         \E s0 \in {Mipi_s_stream(cx, enable)
                     : cx \in {Ctx(0, FALSE, 0)}} :
         \E f \in FailAt(s0) :
            \E s \in {IF f[1] = 0 THEN s0 ELSE Mipi_s_stream(cx, enable)
                       : cx \in {Ctx(f[1], f[2], 0)}} :
               Commit(s, "set_stream", "", IF enable THEN 1 ELSE 0, FALSE)
    /\ UNCHANGED <<suspended, activeAtSuspend>>

\* VIDIOC_S_CTRL -> v4l2_s_ctrl -> imx662_s_ctrl, under the handler lock,
\* which imx662_probe makes the driver mutex
Mipi_SCtrl ==
    /\ drv = "mipi" /\ steps < MaxOps /\ ~suspended
    /\ \E c \in Mipi_ctrl_inputs :
       \E g \in IF c[1] = "sync_mode" THEN MipiGarbage ELSE {0} :
         \E s0 \in {FwSCtrl(cx, c[1], c[2])
                     : cx \in {Ctx(0, FALSE, g)}} :
         \E f \in FailAt(s0) :
            \E s \in {IF f[1] = 0 THEN s0 ELSE FwSCtrl(cx, c[1], c[2])
                       : cx \in {Ctx(f[1], f[2], g)}} :
               Commit(s, "set_ctrl", c[1], c[2], TRUE)
    /\ UNCHANGED <<suspended, activeAtSuspend>>

\* private ioctl -> imx662_priv_ioctl, which takes the mutex
Mipi_PrivIoctl ==
    /\ drv = "mipi" /\ steps < MaxOps /\ ~suspended
    /\ \E c \in Mipi_ioctl_inputs :
       \E g \in IF c[1] = "S_SYNC_MODE" THEN MipiGarbage ELSE {0} :
         \E s0 \in {Mipi_priv_ioctl(cx, c[1], c[2])
                     : cx \in {Ctx(0, FALSE, g)}} :
         \E f \in FailAt(s0) :
            \E s \in {IF f[1] = 0 THEN s0 ELSE Mipi_priv_ioctl(cx, c[1], c[2])
                       : cx \in {Ctx(f[1], f[2], g)}} :
               Commit(s, IF c[1] = "S_STREAM" THEN "set_stream" ELSE "ioctl",
                      IF c[1] = "S_STREAM" THEN ""
                      ELSE IF c[1] = "S_EXP" THEN "exposure" ELSE "sync_mode",
                      c[2], TRUE)
    /\ UNCHANGED <<suspended, activeAtSuspend>>

\* s_power core operation -> imx662_s_power
Mipi_SPower ==
    /\ drv = "mipi" /\ steps < MaxOps /\ ~suspended
    /\ \E on \in BOOLEAN :
         \E s0 \in {Mipi_s_power(cx, on)
                     : cx \in {Ctx(0, FALSE, 0)}} :
         \E f \in FailAt(s0) :
            \E s \in {IF f[1] = 0 THEN s0 ELSE Mipi_s_power(cx, on)
                       : cx \in {Ctx(f[1], f[2], 0)}} :
               Commit(s, "s_power", "", IF on THEN 1 ELSE 0, TRUE)
    /\ UNCHANGED <<suspended, activeAtSuspend>>

\* system sleep: imx662_suspend, called by the PM core without the mutex
Mipi_Suspend ==
    /\ drv = "mipi" /\ steps < MaxOps /\ ~suspended
    /\ \E s0 \in {Mipi_suspend(cx)
                   : cx \in {Ctx(0, FALSE, 0)}} :
       \E f \in FailAt(s0) :
         \E s \in {IF f[1] = 0 THEN s0 ELSE Mipi_suspend(cx)
                    : cx \in {Ctx(f[1], f[2], 0)}} :
            Commit(s, "suspend", "", 0, FALSE)
    /\ suspended' = TRUE
    /\ activeAtSuspend' = streaming

\* system wake-up: imx662_resume, called by the PM core without the mutex
Mipi_Resume ==
    /\ drv = "mipi" /\ steps < MaxOps /\ suspended
    /\ \E s0 \in {Mipi_resume(cx)
                   : cx \in {Ctx(0, FALSE, 0)}} :
       \E f \in FailAt(s0) :
         \E s \in {IF f[1] = 0 THEN s0 ELSE Mipi_resume(cx)
                    : cx \in {Ctx(f[1], f[2], 0)}} :
            Commit(s, "resume", "", 0, FALSE)
    /\ suspended' = FALSE
    /\ UNCHANGED activeAtSuspend

Next ==
    \/ Rpi_SetStream
    \/ Rpi_SetCtrl
    \/ Rpi_SetPadFormat
    \/ Rpi_Suspend
    \/ Rpi_Resume
    \/ Rpi_RuntimeSuspend
    \/ Fr_SetStream
    \/ Fr_SetCtrl
    \/ Fr_SetPadFormat
    \/ Fr_Suspend
    \/ Fr_Resume
    \/ Fr_RuntimeSuspend
    \/ Mipi_SStream
    \/ Mipi_SCtrl
    \/ Mipi_PrivIoctl
    \/ Mipi_SPower
    \/ Mipi_Suspend
    \/ Mipi_Resume

Spec == Init /\ [][Next]_vars

----------------------------------------------------------------------------
(* Driver functions followed step by step.  loc holds the locals of the   *)
(* function and pc, the position reached in it; the driver instance is     *)
(* left alone.                                                             *)

DriverVars == <<drv, gmsl, power, usage, streaming, resume_status,
                common_regs_written, suspended, mode, VMAX, HMAX, ctrl, rng,
                grab, extmode, trace, last, commonWrites, activeAtSuspend,
                pnew, steps, faults, pendingOff>>

(* mipi: imx662_write_reg and imx662_i2c_transfer, attempt by attempt *)

IMX662_MAX_RETRIES == 10

\* the two retry loops, with the byte count a successful attempt returns:
\* i2c_master_send gives the bytes sent, i2c_transfer the messages sent
RetryFns == {"imx662_write_reg", "imx662_i2c_transfer"}
RetrySent(fn) == IF fn = "imx662_write_reg" THEN 3 ELSE 1

\* the condition of the for loop (a loop that never gives up, for contrast)
RetryAllowed_forever(num_retry) == TRUE
RetryAllowed(num_retry) == num_retry < IMX662_MAX_RETRIES

\* entry: int ret = 0; int num_retry = 0; sent counts the attempts made
RetryInit ==
    /\ DriverInit
    /\ drv = "mipi" /\ ~gmsl
    /\ \E f \in RetryFns, r \in {"STANDBY", "XMSTA"} :
          loc = [fn |-> f, reg |-> r, pc |-> "loop", num_retry |-> 0,
                 ret |-> 0, sent |-> 0, result |-> 0]

\* one pass of the loop body: the transfer succeeds (break) or fails with
\* an errno (num_retry++)
Retry_Attempt ==
    /\ loc.fn \in RetryFns /\ loc.pc = "loop"
    /\ RetryAllowed(loc.num_retry)
    /\ \E r \in {RetrySent(loc.fn), EIO, EBUSY} :
          loc' = [loc EXCEPT !.ret = r,
                             !.sent = @ + 1,
                             !.pc = IF r >= 0 THEN "after" ELSE "loop",
                             !.num_retry = IF r >= 0 THEN @ ELSE @ + 1]
    /\ UNCHANGED DriverVars

\* the loop condition fails
Retry_GiveUp ==
    /\ loc.fn \in RetryFns /\ loc.pc = "loop"
    /\ ~RetryAllowed(loc.num_retry)
    /\ loc' = [loc EXCEPT !.pc = "after"]
    /\ UNCHANGED DriverVars

\* if (ret < 0) return ret; ... return 0;
Retry_Return ==
    /\ loc.fn \in RetryFns /\ loc.pc = "after"
    /\ loc' = [loc EXCEPT !.pc = "done",
                          !.result = IF loc.ret < 0 THEN loc.ret ELSE 0]
    /\ UNCHANGED DriverVars

RetryNext ==
    \/ Retry_Attempt
    \/ Retry_GiveUp
    \/ Retry_Return

SpecRetry == RetryInit /\ [][RetryNext]_vars

(* fr, mipi: imx662_gmsl_serdes_setup, call by call *)

\* the calls in program order: the variable the result is assigned to and
\* whether a failure jumps to the error label
SerdesCalls ==
    << [call |-> "max96792_reset_control", to |-> "ret", check |-> FALSE],
       [call |-> "max96792_gmsl3_setup", to |-> "ret", check |-> TRUE],
       [call |-> "max96793_gmsl3_setup", to |-> "ret", check |-> TRUE],
       [call |-> "max96792_setup_link", to |-> "ret", check |-> TRUE],
       [call |-> "max96793_setup_control", to |-> "ret", check |-> FALSE],
       [call |-> "max96793_gpio10_xtrig1_setup", to |-> "ret",
        check |-> TRUE],
       [call |-> "max96792_setup_control", to |-> "des_err",
        check |-> FALSE] >>

\* the calls into the serializer driver (max96793)
SerializerCalls ==
    {"max96793_gmsl3_setup", "max96793_setup_control",
     "max96793_gpio10_xtrig1_setup"}

\* pc values after the last call: the error label, and returned
SerdesErrorLabel == Len(SerdesCalls) + 1
SerdesReturned == Len(SerdesCalls) + 2

\* entry, on an instance behind a GMSL link: ret = 0, des_err = 0; failed
\* collects the calls that reported a failure
SerdesInit ==
    /\ DriverInit
    /\ gmsl
    /\ loc = [fn |-> "imx662_gmsl_serdes_setup", pc |-> 1, ret |-> 0,
              des_err |-> 0, failed |-> {}, result |-> 0]

\* the call at pc returns 0 or an error
Serdes_Call ==
    /\ loc.fn = "imx662_gmsl_serdes_setup" /\ loc.pc \in DOMAIN SerdesCalls
    /\ \E r \in {0, EIO, EINVAL} :
          LET c == SerdesCalls[loc.pc]
          IN loc' = [loc EXCEPT
                       ![c.to] = r,
                       !.failed = IF r # 0 THEN @ \cup {c.call} ELSE @,
                       !.pc = IF c.check /\ r # 0 THEN SerdesErrorLabel
                              ELSE @ + 1]
    /\ UNCHANGED DriverVars

\* error: mutex_unlock; return ret
Serdes_Return ==
    /\ loc.fn = "imx662_gmsl_serdes_setup" /\ loc.pc = SerdesErrorLabel
    /\ loc' = [loc EXCEPT !.pc = SerdesReturned, !.result = loc.ret]
    /\ UNCHANGED DriverVars

SerdesNext ==
    \/ Serdes_Call
    \/ Serdes_Return

SpecSerdes == SerdesInit /\ [][SerdesNext]_vars

(* mipi: the exposure and frame-rate arithmetic on cur_mode.ae_info and    *)
(* the shutter registers, every transfer succeeding.  loc holds cur_mode,  *)
(* the sensor's SHR0 and RHS1 registers, the last call (op) and the line   *)
(* count or data rate req it asked for.  ADDMODE, DATARATE_SEL and HMAX    *)
(* are the sensor's registers, data_rate the value of the data-rate        *)
(* control, old_rate the DATARATE_SEL value before the last call and ret   *)
(* what the last call returned.                                            *)

\* replacing the low byte, or the low two bytes, of a three-byte register
SetLow(reg, b) == (reg \div 256) * 256 + b
SetLowMid(reg, w) == (reg \div 65536) * 65536 + w

Ae_fps_inputs == { <<30, 1>>, <<200, 1>>, <<20 * 1024, 0>> }
Ae_exp_inputs ==
    { <<0, 1>>, <<1000000, 1>>, <<60000000, 1>>, <<102400000, 0>> }
Ae_vs_exp_inputs == { <<0, 1>>, <<500000, 1>>, <<2000000, 1>> }

\* imx662_set_data_rate on the record st: imx662_change_data_rate, which
\* writes the selector sel for the ADDMODE value it reads back, then
\* imx662_adjust_hmax_register
Mipi_set_data_rate(st, data_rate) ==
    LET sel == IF st.ADDMODE = IMX662_BINNING_MODE
               THEN IF data_rate # IMX662_594_MBPS
                    THEN IMX662_594_MBPS ELSE data_rate
               ELSE IF data_rate # IMX662_720_MBPS
                        /\ data_rate # IMX662_594_MBPS
                    THEN IMX662_594_MBPS ELSE data_rate
        hmax == Mipi_adjust_hmax(sel, st.ADDMODE)
        a == [st EXCEPT !.old_rate = st.DATARATE_SEL,
                        !.DATARATE_SEL = sel,
                        !.data_rate = IF sel # data_rate THEN sel ELSE @]
    IN IF hmax < 0 THEN [a EXCEPT !.ret = -1]
       ELSE [a EXCEPT !.HMAX = hmax,
                      !.cur_mode.one_line_exp_time_ns =
                          MulDiv(hmax, IMX662_G_FACTOR, IMX662_INCK),
                      !.ret = 0]

\* imx662_probe copies pimx662_mode_info[0]; the registers as a first
\* imx662_set_fmt with the default data rate leaves them on a sensor whose
\* upper shutter bytes are zero
AeInit ==
    /\ DriverInit
    /\ drv = "mipi" /\ ~gmsl
    /\ loc = [fn |-> "ae", cur_mode |-> pimx662_mode_info[1],
              SHR0 |-> 4, RHS1 |-> 0, ADDMODE |-> 0,
              DATARATE_SEL |-> IMX662_594_MBPS, HMAX |-> 990,
              data_rate |-> IMX662_594_MBPS,
              old_rate |-> IMX662_594_MBPS, ret |-> 0,
              op |-> "probe", req |-> 0]

\* imx662_set_sensor_mode (VVSENSORIOC_S_SENSOR_MODE)
Ae_set_sensor_mode ==
    /\ loc.fn = "ae"
    /\ \E i \in DOMAIN pimx662_mode_info :
          loc' = [loc EXCEPT !.cur_mode = pimx662_mode_info[i],
                             !.op = "set_sensor_mode", !.req = 0]
    /\ UNCHANGED DriverVars

\* imx662_set_fmt: imx662_init_setting, then the table of cur_mode.index
\* (imx662_setting_dol_hdr and imx662_setting_clear_hdr set shutter bytes,
\* the two binning tables ADDMODE and HMAX), then the data-rate control's
\* value is applied; a failure of that is answered with -EINVAL
Ae_set_fmt ==
    /\ loc.fn = "ae"
    /\ LET shr0 == SetLow(loc.SHR0, 4)
           index == loc.cur_mode.index
           binning == index \in {2, 3}
           a == [loc EXCEPT
                    !.SHR0 = IF index = IMX662_DOL_INDEX
                             THEN SetLowMid(shr0, 1000)
                             ELSE IF index = IMX662_CLEAR_INDEX
                             THEN SetLowMid(shr0, 8)
                             ELSE shr0,
                    !.RHS1 = IF index = IMX662_DOL_INDEX
                             THEN SetLowMid(@, 157) ELSE @,
                    !.ADDMODE = IF binning THEN IMX662_BINNING_MODE ELSE 0,
                    !.HMAX = IF binning THEN 660 ELSE @,
                    !.op = "set_fmt", !.req = 0]
           b == Mipi_set_data_rate(a, a.data_rate)
       IN loc' = [b EXCEPT !.ret = IF b.ret < 0 THEN EINVAL ELSE 0]
    /\ UNCHANGED DriverVars

\* imx662_set_data_rate (VVSENSORIOC_S_DATA_RATE)
Ae_set_data_rate ==
    /\ loc.fn = "ae"
    /\ \E d \in {IMX662_891_MBPS, IMX662_720_MBPS, IMX662_594_MBPS} :
          loc' = [Mipi_set_data_rate(loc, d) EXCEPT
                     !.op = "set_data_rate", !.req = d]
    /\ UNCHANGED DriverVars

\* imx662_set_fps
Ae_set_fps ==
    /\ loc.fn = "ae"
    /\ \E c \in Ae_fps_inputs :
          LET m == loc.cur_mode
              fps == Clamp(IF c[2] = 1 THEN c[1] * 1024 ELSE c[1],
                           m.min_fps, m.max_fps)
              fps_reg == Mipi_fps_reg(m.index, fps, m.one_line_exp_time_ns)
          IN loc' = [loc EXCEPT
                       !.cur_mode.cur_fps = fps,
                       !.cur_mode.max_integration_line =
                           IF m.index = IMX662_DOL_INDEX
                           THEN 2 * fps_reg - 2 - m.max_vsintegration_line
                           ELSE fps_reg - m.min_integration_line,
                       !.cur_mode.curr_frm_len_lines = fps_reg,
                       !.op = "set_fps", !.req = 0]
    /\ UNCHANGED DriverVars

\* imx662_set_exp: the three bytes of reg_shr0 go to SHR0
Ae_set_exp ==
    /\ loc.fn = "ae"
    /\ \E c \in Ae_exp_inputs :
          LET m == loc.cur_mode
              t == Mipi_integration_time_line(c[1], c[2],
                                              m.one_line_exp_time_ns)
          IN loc' = [loc EXCEPT
                       !.SHR0 = U24(Mipi_reg_shr0(m.index,
                                        m.curr_frm_len_lines, t,
                                        m.min_integration_line,
                                        m.max_integration_line)),
                       !.op = "set_exp", !.req = t]
    /\ UNCHANGED DriverVars

\* imx662_set_vs_exp: reg_shr0 is read back from SHR0 and the three bytes of
\* reg_rhs1 go to RHS1
Ae_set_vs_exp ==
    /\ loc.fn = "ae"
    /\ \E c \in Ae_vs_exp_inputs :
          LET m == loc.cur_mode
              t == Mipi_integration_time_line(c[1], c[2],
                                              m.one_line_exp_time_ns)
          IN loc' = [loc EXCEPT
                       !.RHS1 = U24(Mipi_reg_rhs1(loc.SHR0, t,
                                        m.min_vsintegration_line,
                                        m.max_vsintegration_line)),
                       !.op = "set_vs_exp", !.req = t]
    /\ UNCHANGED DriverVars

AeNext ==
    \/ Ae_set_sensor_mode
    \/ Ae_set_fmt
    \/ Ae_set_fps
    \/ Ae_set_exp
    \/ Ae_set_vs_exp

SpecAe == AeInit /\ [][AeNext]_vars

\* the mode, format and data-rate calls alone
RateNext ==
    \/ Ae_set_sensor_mode
    \/ Ae_set_fmt
    \/ Ae_set_data_rate

SpecRate == AeInit /\ [][RateNext]_vars

(* mipi: imx662_get_gain_reg, the search of gain_reg2times followed step   *)
(* by step for one gain-time input.                                        *)

IMX662_GAIN_REG_LEN == 241

\* gain_reg2times[0..240], entry i + 1 for index i
gain_reg2times ==
    <<
       1024, 1060, 1097, 1136, 1176, 1217, 1260, 1304, 1350, 1397, 1446,
       1497, 1550, 1604, 1661, 1719, 1780, 1842, 1907, 1974, 2043, 2115,
       2189, 2266, 2346, 2428, 2514, 2602, 2693, 2788, 2886, 2987, 3092,
       3201, 3314, 3430, 3551, 3675, 3805, 3938, 4077, 4220, 4368, 4522,
       4681, 4845, 5015, 5192, 5374, 5563, 5758, 5961, 6170, 6387, 6611,
       6844, 7084, 7333, 7591, 7858, 8134, 8420, 8716, 9022, 9339, 9667,
       10007, 10359, 10723, 11099, 11489, 11893, 12311, 12744, 13192,
       13655, 14135, 14632, 15146, 15678, 16229, 16800, 17390, 18001,
       18634, 19289, 19966, 20668, 21394, 22146, 22925, 23730, 24564,
       25427, 26321, 27246, 28203, 29194, 30220, 31282, 32382, 33520,
       34698, 35917, 37179, 38486, 39838, 41238, 42687, 44188, 45740,
       47348, 49012, 50734, 52517, 54363, 56273, 58251, 60298, 62417,
       64610, 66881, 69231, 71664, 74182, 76789, 79488, 82281, 85173,
       88166, 91264, 94471, 97791, 101228, 104785, 108468, 112279,
       116225, 120310, 124537, 128914, 133444, 138134, 142988, 148013,
       153215, 158599, 164172, 169942, 175914, 182096, 188495, 195119,
       201976, 209074, 216421, 224027, 231900, 240049, 248485, 257217,
       266256, 275613, 285299, 295325, 305703, 316446, 327567, 339078,
       350994, 363329, 376097, 389314, 402995, 417157, 431817, 446992,
       462700, 478961, 495793, 513216, 531251, 549921, 569246, 589250,
       609958, 631393, 653582, 676550, 700326, 724936, 750412, 776783,
       804081, 832338, 861589, 891867, 923209, 955652, 989236, 1024000,
       1059986, 1097236, 1135795, 1175709, 1217026, 1259795, 1304067,
       1349895, 1397333, 1446438, 1497269, 1549887, 1604353, 1660734,
       1719095, 1779508, 1842044, 1906777, 1973786, 2043149, 2114949,
       2189273, 2266209, 2345848, 2428287, 2513622, 2601956, 2693394,
       2788046, 2886024, 2987445, 3092431, 3201105, 3313599, 3430046,
       3550585, 3675361, 3804521, 3938220, 4076617 >>

GainTimes(i) == gain_reg2times[i + 1]

\* the two range checks at the top of the function
GainTooSmall(gain) == gain < GainTimes(0)
GainTooLarge_first(gain) == gain > GainTimes(0)
GainTooLarge(gain) == gain > GainTimes(IMX662_GAIN_REG_LEN - 1)

\* the condition of the while loop (one that stops a step early, for
\* contrast)
GainLoop_early(l, r) == l + 2 < r
GainLoop(l, r) == l + 1 < r

\* the loop body: mid, and the half of the interval that is kept
GainStep(gain, l, r) ==
    LET mid == (l + r) \div 2
    IN IF GainTimes(mid) > gain THEN <<l, mid>> ELSE <<mid, r>>

\* the final choice between the two neighbours (variants that take the
\* farther one, and always the upper one, for contrast)
GainClosest_farther(gain, l, r) ==
    IF gain - GainTimes(l) > GainTimes(r) - gain THEN l ELSE r
GainClosest_upper(gain, l, r) == r
GainClosest(gain, l, r) ==
    IF gain - GainTimes(l) < GainTimes(r) - gain THEN l ELSE r

\* imx662_get_gain_reg as a function of its argument
RECURSIVE GainSearch(_, _, _)
GainSearch(gain, l, r) ==
    IF GainLoop(l, r)
    THEN LET n == GainStep(gain, l, r) IN GainSearch(gain, n[1], n[2])
    ELSE GainClosest(gain, l, r)

imx662_get_gain_reg(gain) ==
    IF GainTooSmall(gain) THEN 0
    ELSE IF GainTooLarge(gain) THEN 240
    ELSE GainSearch(gain, 0, IMX662_GAIN_REG_LEN - 1)

\* gain-time inputs: every table entry, its two neighbours and the two
\* values around the middle of every gap
GainInputs ==
    UNION { {GainTimes(i) - 1, GainTimes(i), GainTimes(i) + 1}
                : i \in 0..(IMX662_GAIN_REG_LEN - 1) }
    \cup UNION { LET h == (GainTimes(i) + GainTimes(i + 1)) \div 2
                 IN {h, h + 1} : i \in 0..(IMX662_GAIN_REG_LEN - 2) }

\* entry: u32 l = 0; u32 r = IMX662_GAIN_REG_LEN - 1; u32 ret = 0
GainInit ==
    /\ DriverInit
    /\ drv = "mipi" /\ ~gmsl
    /\ \E g \in GainInputs :
          loc = [fn |-> "imx662_get_gain_reg", gain |-> g, pc |-> "entry",
                 l |-> 0, r |-> IMX662_GAIN_REG_LEN - 1, ret |-> 0]

\* the range checks: return 0, return 240, or enter the loop
Gain_Entry ==
    /\ loc.fn = "imx662_get_gain_reg" /\ loc.pc = "entry"
    /\ loc' = IF GainTooSmall(loc.gain)
              THEN [loc EXCEPT !.pc = "done", !.ret = 0]
              ELSE IF GainTooLarge(loc.gain)
              THEN [loc EXCEPT !.pc = "done", !.ret = 240]
              ELSE [loc EXCEPT !.pc = "loop"]
    /\ UNCHANGED DriverVars

\* one pass of the while loop
Gain_Step ==
    /\ loc.fn = "imx662_get_gain_reg" /\ loc.pc = "loop"
    /\ GainLoop(loc.l, loc.r)
    /\ LET n == GainStep(loc.gain, loc.l, loc.r)
       IN loc' = [loc EXCEPT !.l = n[1], !.r = n[2]]
    /\ UNCHANGED DriverVars

\* the loop has ended: ret = closest of l and r; return ret
Gain_Return ==
    /\ loc.fn = "imx662_get_gain_reg" /\ loc.pc = "loop"
    /\ ~GainLoop(loc.l, loc.r)
    /\ loc' = [loc EXCEPT !.pc = "done",
                          !.ret = GainClosest(loc.gain, loc.l, loc.r)]
    /\ UNCHANGED DriverVars

GainNext ==
    \/ Gain_Entry
    \/ Gain_Step
    \/ Gain_Return

SpecGain == GainInit /\ [][GainNext]_vars

-----------------------------------------------------------------------------
(* Format negotiation of the rpi driver: imx662_set_pad_format on the      *)
(* image pad.  loc holds the device variant mono, the driver's mode (an    *)
(* index of Rpi_modes) and fmt_code, the try format of the file handle,    *)
(* and of the last imx662_set_pad_format the requested code req, which    *)
(* format it was for and the format handed back; got is the format the     *)
(* last imx662_get_pad_format handed back, ret the last return value and   *)
(* null_mode whether a call went through a null mode pointer.  Media bus codes and transfer functions are written by the     *)
(* tail of their names.  The controls imx662_set_framing_limits adjusts    *)
(* belong to Rpi_set_pad_format and are not part of loc.                   *)

\* imx662_get_format_code: the loop leaves i at the array's size when code
\* is in neither table, and codes[i] is then the word behind the array,
\* past_end
imx662_get_format_code(mono, code, past_end) ==
    LET codes == <<"SRGGB16_1X16", "SGRBG16_1X16", "SGBRG16_1X16",
                   "SBGGR16_1X16", "SRGGB12_1X12", "SGRBG12_1X12",
                   "SGBRG12_1X12", "SBGGR12_1X12">>
        mono_codes == <<"Y16_1X16", "Y12_1X12">>
        table == IF mono THEN mono_codes ELSE codes
    IN IF \E i \in DOMAIN table : table[i] = code THEN code ELSE past_end

\* get_mode_table: the list of Rpi_modes a code and transfer function
\* select, "NULL" with num_modes 0 for any other code
get_mode_table(mono, code, transfer_function) ==
    LET is16 == IF mono THEN code = "Y16_1X16"
                ELSE code \in {"SRGGB16_1X16", "SGRBG16_1X16",
                               "SGBRG16_1X16", "SBGGR16_1X16"}
        is12 == IF mono THEN code = "Y12_1X12"
                ELSE code \in {"SRGGB12_1X12", "SGRBG12_1X12",
                               "SGBRG12_1X12", "SBGGR12_1X12"}
    IN IF is16 THEN "16"
       ELSE IF is12
            THEN IF transfer_function = "GRADATION_COMPRESSION"
                 THEN "nl12" ELSE "12"
            ELSE "NULL"

\* imx662_probe: imx662_set_default_format, on a colour or a mono device
FmtInit ==
    /\ DriverInit
    /\ drv = "rpi"
    /\ \E mono \in BOOLEAN :
          loc = [fn |-> "fmt", mono |-> mono, mode |-> 1,
                 fmt_code |-> IF mono THEN "Y12_1X12" ELSE "SRGGB12_1X12",
                 try_fmt |-> <<>>, op |-> "probe", req |-> "",
                 which |-> "", format |-> <<>>, got |-> <<>>, ret |-> 0,
                 null_mode |-> FALSE]

\* imx662_set_pad_format on the image pad with a request of code c,
\* transfer function x and size w x h, for the active format or as a try.
\* v4l2_find_nearest_size returns NULL for an empty list, and
\* imx662_update_image_pad_format reads mode->width through it: the call
\* does not return and the mutex stays locked
Fmt_set_pad_format ==
    /\ loc.fn = "fmt" /\ ~loc.null_mode
    /\ \E c \in {"SRGGB16_1X16", "SBGGR12_1X12", "Y16_1X16", "Y12_1X12",
                 "RGB888_1X24"},
          x \in {"DEFAULT", "GRADATION_COMPRESSION"},
          wh \in { <<1936, 1100>>, <<3856, 2180>> },
          try \in BOOLEAN,
          past_end \in {"SRGGB12_1X12", "Y16_1X16", "OTHER"} :
         LET code == imx662_get_format_code(loc.mono, c, past_end)
             list == get_mode_table(loc.mono, code, x)
             a == [loc EXCEPT !.op = "set_pad_format", !.req = c,
                              !.which = IF try THEN "TRY" ELSE "ACTIVE",
                              !.got = <<>>]
         IN IF list = "NULL"
            THEN loc' = [a EXCEPT !.null_mode = TRUE, !.format = <<>>]
            ELSE LET mo == Rpi_find_mode(list, wh[1], wh[2])
                     f == <<code, Rpi_modes[mo].width, Rpi_modes[mo].height>>
                 IN loc' = [a EXCEPT
                              !.format = f, !.ret = 0,
                              !.try_fmt = IF try THEN f ELSE @,
                              !.mode = IF try THEN @ ELSE mo,
                              !.fmt_code = IF ~try /\ loc.mode # mo
                                           THEN code ELSE @]
    /\ UNCHANGED DriverVars

\* imx662_get_pad_format on the image pad for the active format: the size
\* of imx662->mode and the code imx662->fmt_code, which is always one of
\* the variant's codes, go to got
Fmt_get_pad_format ==
    /\ loc.fn = "fmt" /\ ~loc.null_mode
    /\ loc' = [loc EXCEPT
                  !.op = "get_pad_format", !.ret = 0,
                  !.got = <<imx662_get_format_code(loc.mono, loc.fmt_code,
                                                   "OTHER"),
                            Rpi_modes[loc.mode].width,
                            Rpi_modes[loc.mode].height>>]
    /\ UNCHANGED DriverVars

FmtNext ==
    \/ Fmt_set_pad_format
    \/ Fmt_get_pad_format

SpecFmt == FmtInit /\ [][FmtNext]_vars

-----------------------------------------------------------------------------
(* The instance mutex.  For the mipi driver sensor->lock is followed       *)
(* through the calls that take it themselves: loc holds whether the reset  *)
(* pin of the device tree is valid (rst_valid), powered_on,                *)
(* cur_mode.index, and lock: the mutex is held although no call is         *)
(* running.  A call made while it is held would wait for ever, so no       *)
(* action is enabled then.  For the fr driver imx662->mutex is followed    *)
(* through imx662_probe and imx662_remove: loc holds the position pc, the  *)
(* state of the mutex (raw before mutex_init, init, destroyed), whether    *)
(* mutex_lock was called on it while raw (early) or destroyed (late), and  *)
(* the return value ret.                                                   *)

\* mipi imx662_probe: mutex_init; a missing reset pin only draws a
\* warning.  fr: the entry of imx662_probe, the structure zeroed
LockInit ==
    /\ DriverInit
    /\ \/ /\ drv = "mipi"
          /\ \E v \in IF gmsl THEN {FALSE} ELSE BOOLEAN :
                loc = [fn |-> "lock", rst_valid |-> v, powered_on |-> FALSE,
                       index |-> 0, lock |-> FALSE, op |-> "probe",
                       ret |-> 0]
       \/ /\ drv = "fr"
          /\ loc = [fn |-> "probe", pc |-> "entry", mutex |-> "raw",
                    early |-> FALSE, late |-> FALSE, ret |-> 0]

\* imx662_power_on: returns -1 from inside the locked region when the
\* reset pin is not valid
Lock_power_on ==
    /\ loc.fn = "lock" /\ ~loc.lock
    /\ loc' = IF ~gmsl /\ ~loc.rst_valid
              THEN [loc EXCEPT !.lock = TRUE, !.ret = -1, !.op = "power_on"]
              ELSE [loc EXCEPT !.powered_on = TRUE, !.ret = 0,
                               !.op = "power_on"]
    /\ UNCHANGED DriverVars

\* imx662_power_off: the same early return
Lock_power_off ==
    /\ loc.fn = "lock" /\ ~loc.lock
    /\ loc' = IF ~gmsl /\ ~loc.rst_valid
              THEN [loc EXCEPT !.lock = TRUE, !.ret = -1, !.op = "power_off"]
              ELSE [loc EXCEPT !.powered_on = FALSE, !.ret = 0,
                               !.op = "power_off"]
    /\ UNCHANGED DriverVars

\* imx662_set_fmt: size tells whether the requested size is that of
\* cur_mode, fail which of its steps fails (the common table, the pixel
\* format, the mode table, or imx662_s_ctrl for the data rate, which does
\* nothing while powered_on is 0)
Lock_set_fmt ==
    /\ loc.fn = "lock" /\ ~loc.lock
    /\ \E size \in BOOLEAN,
          fail \in {"none", "common", "pixel_format", "mode", "data_rate"} :
         loc' = [loc EXCEPT
                   !.op = "set_fmt",
                   !.ret = IF ~size \/ fail \in {"common", "pixel_format"}
                              \/ (fail = "data_rate" /\ loc.powered_on)
                           THEN EINVAL ELSE 0,
                   !.lock = size /\ fail = "data_rate" /\ loc.powered_on]
    /\ UNCHANGED DriverVars

\* imx662_priv_ioctl: VVSENSORIOC_S_SENSOR_MODE with index i (6 is no
\* mode and answered with -ENXIO), unlocked after the switch on every path
Lock_priv_ioctl ==
    /\ loc.fn = "lock" /\ ~loc.lock
    /\ \E i \in 0..6 :
         loc' = [loc EXCEPT !.op = "priv_ioctl",
                            !.index = IF i < 6 THEN i ELSE @,
                            !.ret = IF i < 6 THEN 0 ELSE -6]
    /\ UNCHANGED DriverVars

\* mutex_lock(&imx662->mutex) and the mutex_unlock that follows it, as in
\* imx662_power_off
Fr_mutex_lock(st) ==
    [st EXCEPT !.early = @ \/ st.mutex = "raw",
               !.late = @ \/ st.mutex = "destroyed"]

\* imx662_probe up to the xmaster pin: on a GMSL device
\* imx662_gmsl_serdes_setup, which takes the mutex; imx662_power_on;
\* imx662_communication_verify.  A failure of the serializer setup or of
\* the pin returns at once, a failure to reach the sensor goes to
\* error_power_off
Probe_power_on ==
    /\ loc.fn = "probe" /\ loc.pc = "entry"
    /\ \E fail \in {"none", "serdes", "verify", "xmaster"} :
         /\ fail = "serdes" => gmsl
         /\ LET a == IF gmsl THEN Fr_mutex_lock(loc) ELSE loc
            IN loc' = CASE fail = "none" -> [a EXCEPT !.pc = "runtime_pm"]
                        [] fail = "verify" ->
                             [a EXCEPT !.pc = "error_power_off", !.ret = EIO]
                        [] OTHER -> [a EXCEPT !.pc = "returned", !.ret = EIO]
    /\ UNCHANGED DriverVars

\* pm_runtime_set_active, pm_runtime_enable, pm_runtime_idle: with no
\* usage reference the idle device is suspended through imx662_power_off
Probe_runtime_idle ==
    /\ loc.fn = "probe" /\ loc.pc = "runtime_pm"
    /\ loc' = [Fr_mutex_lock(loc) EXCEPT !.pc = "init_controls"]
    /\ UNCHANGED DriverVars

\* imx662_init_controls: v4l2_ctrl_handler_init may fail before
\* mutex_init; a control error after it destroys the mutex again; else
\* imx662_set_limits runs under the mutex
Probe_init_controls ==
    /\ loc.fn = "probe" /\ loc.pc = "init_controls"
    /\ \E fail \in {"none", "handler_init", "ctrl"} :
         loc' = CASE fail = "none" ->
                       [Fr_mutex_lock([loc EXCEPT !.mutex = "init"])
                           EXCEPT !.pc = "register"]
                  [] fail = "handler_init" ->
                       [loc EXCEPT !.pc = "error_power_off", !.ret = EIO]
                  [] OTHER ->
                       [loc EXCEPT !.mutex = "destroyed",
                                   !.pc = "error_power_off", !.ret = EIO]
    /\ UNCHANGED DriverVars

\* media_entity_pads_init and v4l2_async_register_subdev_sensor
Probe_register ==
    /\ loc.fn = "probe" /\ loc.pc = "register"
    /\ \E fail \in BOOLEAN :
         loc' = IF fail
                THEN [loc EXCEPT !.pc = "error_handler_free", !.ret = EIO]
                ELSE [loc EXCEPT !.pc = "bound", !.ret = 0]
    /\ UNCHANGED DriverVars

\* the labels error_handler_free (imx662_free_controls) and
\* error_power_off (pm_runtime_disable, pm_runtime_set_suspended,
\* imx662_power_off)
Probe_error ==
    /\ loc.fn = "probe"
    /\ loc.pc \in {"error_handler_free", "error_power_off"}
    /\ LET a == IF loc.pc = "error_handler_free"
                THEN [loc EXCEPT !.mutex = "destroyed"] ELSE loc
       IN loc' = [Fr_mutex_lock(a) EXCEPT !.pc = "returned"]
    /\ UNCHANGED DriverVars

\* imx662_remove: imx662_gmsl_serdes_reset on a GMSL device,
\* imx662_free_controls, then imx662_power_off unless the device is
\* runtime suspended
Probe_remove ==
    /\ loc.fn = "probe" /\ loc.pc = "bound"
    /\ \E status_suspended \in BOOLEAN :
         LET a == IF gmsl THEN Fr_mutex_lock(loc) ELSE loc
             b == [a EXCEPT !.mutex = "destroyed", !.pc = "removed"]
         IN loc' = IF status_suspended THEN b ELSE Fr_mutex_lock(b)
    /\ UNCHANGED DriverVars

LockNext ==
    \/ Lock_power_on
    \/ Lock_power_off
    \/ Lock_set_fmt
    \/ Lock_priv_ioctl
    \/ Probe_power_on
    \/ Probe_runtime_idle
    \/ Probe_init_controls
    \/ Probe_register
    \/ Probe_error
    \/ Probe_remove

SpecLock == LockInit /\ [][LockNext]_vars

----------------------------------------------------------------------------
(* The ESP component (src/components/imx662/imx662.c): its exposure        *)
(* parameter. loc holds the sensor registers VMAX and SHR0, the current    *)
(* format and the last call; the variables of the kernel drivers stay at   *)
(* one probe state and are not used.                                       *)

\* imx662_query_para_desc: the range advertised for ESP_CAM_SENSOR_EXPOSURE_VAL
Esp_exposure_minimum == 52
Esp_exposure_maximum == 49865

\* imx662_set_exposure: the minimum SHR
Esp_shr0_minimum == 11

\* the VMAX value the register table of the one supported format writes
\* (0x3028 = 0xE2, 0x3029 = 0x04)
Esp_VMAX_30fps == 1250

\* the SHR0 value of imx662_common_init_regs (0x3050 = 0xF4, 0x3051 = 0x01)
Esp_SHR0_init == 500

\* how many exposure values are taken at each end of the advertised range
\* and on each side of the frame length
EspSpan == 12

\* the exposure values the parameter is set to: all inside the advertised
\* range
EspExposures ==
    {e \in (Esp_exposure_minimum .. Esp_exposure_minimum + EspSpan)
           \cup (Esp_VMAX_30fps - EspSpan .. Esp_VMAX_30fps + EspSpan)
           \cup (Esp_exposure_maximum - EspSpan .. Esp_exposure_maximum) :
        Esp_exposure_minimum <= e /\ e <= Esp_exposure_maximum}

\* the shutter value imx662_set_exposure puts into the three SHR0 registers
\* for the frame length vmax it read: uint32_t shr0 = vmax - exposure, raised
\* to 11 when below it as an unsigned number, of which the bytes
\* shr0 & 0xFF, (shr0 >> 8) & 0xFF and (shr0 >> 16) & 0x0F are written
Esp_shr0_unsigned(vmax, exposure) ==
    LET shr0 == vmax - exposure
        clamped == IF shr0 >= 0 /\ shr0 < Esp_shr0_minimum
                   THEN Esp_shr0_minimum ELSE shr0
    IN clamped % 1048576

\* imx662_detect: a successful detection ends with imx662_set_format for
\* imx662_format_info[0]
EspInit ==
    /\ DriverInit
    /\ drv = "rpi"
    /\ loc = [fn |-> "esp", cur_format |-> "1936x1100_30fps",
              VMAX |-> Esp_VMAX_30fps, SHR0 |-> Esp_SHR0_init,
              op |-> "detect", exposure |-> 0, read_vmax |-> 0, ret |-> 0]

\* imx662_set_format: imx662_common_init_regs, then the table of the format;
\* a failed write ends the table it is in, here at its first entry, and
\* cur_format is stored at the end only
Esp_set_format ==
    /\ loc.fn = "esp"
    /\ \E fail \in {"none", "common", "format"} :
          loc' = CASE fail = "common" ->
                        [loc EXCEPT !.op = "set_format", !.ret = -1]
                   [] fail = "format" ->
                        [loc EXCEPT !.op = "set_format", !.ret = -1,
                                    !.SHR0 = Esp_SHR0_init]
                   [] OTHER ->
                        [loc EXCEPT !.op = "set_format", !.ret = 0,
                                    !.cur_format = "1936x1100_30fps",
                                    !.VMAX = Esp_VMAX_30fps,
                                    !.SHR0 = Esp_SHR0_init]
    /\ UNCHANGED DriverVars

\* imx662_set_para_value(ESP_CAM_SENSOR_EXPOSURE_VAL) -> imx662_set_exposure
\* with an exposure of the advertised range; a failed read of VMAX returns
\* before anything is written
Esp_set_exposure ==
    /\ loc.fn = "esp"
    /\ \E exposure \in EspExposures, ok \in BOOLEAN :
          loc' = IF ~ok
                 THEN [loc EXCEPT !.op = "set_exposure",
                                  !.exposure = exposure, !.ret = -1]
                 ELSE [loc EXCEPT !.op = "set_exposure",
                                  !.exposure = exposure, !.ret = 0,
                                  !.read_vmax = loc.VMAX,
                                  !.SHR0 = Esp_shr0_unsigned(loc.VMAX,
                                                             exposure)]
    /\ UNCHANGED DriverVars

EspNext ==
    \/ Esp_set_format
    \/ Esp_set_exposure

SpecEsp == EspInit /\ [][EspNext]_vars

----------------------------------------------------------------------------
(* The exposure arithmetic of the rpi driver as a function of the frame    *)
(* length, the line length and the requested exposure: loc holds the mode, *)
(* imx662->VMAX and imx662->HMAX, the exposure range the last vertical     *)
(* blanking request produced and the shutter value of the last exposure    *)
(* request.                                                                *)

\* how many exposure values are taken at each end of the exposure range
ShrSpan == 6

\* frame lengths that the vertical blanking range of mode m admits
\* (mode->min_VMAX .. IMX662_VMAX_MAX): its ends, a value above the lower
\* end, and the two values around which VMAX - 4 passes 0xFFFF
ShrFrameLengths(m) ==
    {Rpi_modes[m].min_VMAX, Rpi_modes[m].min_VMAX + 250,
     65539, 65540, IMX662_VMAX_MAX}

\* imx662_set_framing_limits for one of the modes: the default line and
\* frame length and the exposure range that the vertical blanking request
\* at its end produces
ShrInit ==
    /\ DriverInit
    /\ drv = "rpi"
    /\ \E m \in DOMAIN Rpi_modes :
          loc = [fn |-> "shr", mode |-> m,
                 HMAX |-> Rpi_modes[m].default_HMAX,
                 VMAX |-> Rpi_modes[m].default_VMAX,
                 rng |-> calculate_min_max_v4l2_cid_exposure(
                             Rpi_modes[m].default_HMAX,
                             Rpi_modes[m].default_VMAX,
                             Rpi_modes[m].min_SHR, 209),
                 op |-> "set_framing_limits", exposure |-> 0, shr |-> 0,
                 SHR |-> 0]

\* imx662_set_ctrl, V4L2_CID_VBLANK: the frame length and the exposure range
Shr_set_vblank ==
    /\ loc.fn = "shr"
    /\ \E vmax \in ShrFrameLengths(loc.mode) :
          loc' = [loc EXCEPT
                     !.op = "set_vblank", !.VMAX = vmax,
                     !.rng = calculate_min_max_v4l2_cid_exposure(
                                 loc.HMAX, vmax,
                                 Rpi_modes[loc.mode].min_SHR, 209)]
    /\ UNCHANGED DriverVars

\* imx662_set_ctrl, V4L2_CID_EXPOSURE, with a value of the exposure range:
\* calculate_shr and the 2-byte register write of its result
Shr_set_exposure ==
    /\ loc.fn = "shr"
    /\ \E e \in (loc.rng[1] .. loc.rng[1] + ShrSpan)
                    \cup (loc.rng[2] - ShrSpan .. loc.rng[2]) :
          /\ loc.rng[1] <= e /\ e <= loc.rng[2]
          /\ LET shr == calculate_shr(e, loc.HMAX, loc.VMAX, 209)
             IN loc' = [loc EXCEPT !.op = "set_exposure", !.exposure = e,
                                   !.shr = shr, !.SHR = U16(shr)]
    /\ UNCHANGED DriverVars

ShrNext ==
    \/ Shr_set_vblank
    \/ Shr_set_exposure

SpecShr == ShrInit /\ [][ShrNext]_vars

----------------------------------------------------------------------------
(* Properties of the drivers, stated over the last operation and the bus   *)
(* events it produced.                                                     *)

\* positions of the last operation's events that failed
Failed == {k \in DOMAIN trace : ~trace[k].ok}

\* the last operation was a stream-start / stream-stop request
StartRequest == last.op = "set_stream" /\ last.val = 1
StopRequest == last.op = "set_stream" /\ last.val = 0

\* the registers that carry the controls of this driver
ControlRegs == {CtrlReg(drv, i) : i \in DOMAIN ctrl}

\* the held exposure lies inside the exposure range
ExposureInRange ==
    /\ rng["exposure"][1] <= ctrl["exposure"]
    /\ ctrl["exposure"] <= rng["exposure"][2]

\* C1: a stream-start request issued while the device is already streaming
\* returns success and issues no register write at all.
C1_StartWhileStreamingIsSilent ==
    StartRequest /\ last.preStreaming => last.ret = 0 /\ trace = <<>>

\* C2: within one power cycle the common initialisation table is written
\* exactly once by stream start: never more than once, and once whenever
\* the device streams.
C2_CommonTableOncePerPowerCycle ==
    /\ commonWrites <= 1
    /\ drv # "mipi" /\ streaming => commonWrites = 1

\* C3: if any step of a stream start fails (a link collaborator call or a
\* register write) the request returns failure and the streaming flag is
\* not left set.
C3_FailedStartLeavesStandby ==
    StartRequest /\ ~last.preStreaming /\ Failed # {}
        => last.ret # 0 /\ ~streaming

\* C4: after a stream-stop request returns, the streaming flag is never
\* set, even when the standby register write failed.
C4_StopNeverLeavesStreaming ==
    StopRequest => ~streaming

\* C4 case: a stop of a streaming device whose standby write failed
C4_StopWithFailedStandbyWrite ==
    /\ StopRequest /\ last.preStreaming /\ ~streaming
    /\ \E k \in Failed : trace[k].reg = "STANDBY"

\* C5: during a stream start every control register is written before the
\* mode-select (standby) register is first written to its streaming value.
C5_ControlsBeforeStreamingBit ==
    StartRequest /\ ~last.preStreaming =>
        \A j, k \in DOMAIN trace :
            /\ trace[j].reg = "STANDBY" /\ trace[j].val = 0
            /\ trace[k].reg \in ControlRegs
            => k < j

\* C6: every operation that changes timing state, lifecycle state or
\* pending control values (mode change, control update, stream start or
\* stop, suspend, resume) runs while holding the instance's mutex.
C6_StateChangesHoldTheLock ==
    last.op \in {"set_pad_format", "set_ctrl", "ioctl", "set_stream",
                 "suspend", "resume"} => last.locked

\* C7: a control update received while the device is off causes no sensor
\* register read or write.
C7_NoBusTrafficWhileOff ==
    last.op \in {"set_ctrl", "ioctl"} /\ ~last.prePower => trace = <<>>

\* C8: a control value requested while the device is off is retained and
\* written to the sensor by the next stream start: once a stream start has
\* succeeded no such value is still unwritten.
C8_StartWritesValuesSetWhileOff ==
    StartRequest /\ ~last.preStreaming /\ last.ret = 0 => pendingOff = {}

\* C9: resume restarts streaming if and only if streaming was active when
\* the preceding suspend was invoked; otherwise nothing is sent to the
\* sensor and the device stays in standby.
C9_ResumeRestartsIffActive ==
    last.op = "resume" =>
        /\ (trace # <<>>) <=> activeAtSuspend
        /\ Failed = {} => (streaming <=> activeAtSuspend)
        /\ ~activeAtSuspend => ~streaming

\* C9 case: a resume that restarted a stream that was active at suspend
C9_ResumeRestarted ==
    /\ last.op = "resume" /\ activeAtSuspend /\ streaming
    /\ \E k \in DOMAIN trace : trace[k].reg = "STANDBY" /\ trace[k].ok

\* C10: after any change of vertical blanking the held exposure lies inside
\* the newly computed exposure range when the operation returns.
C10_ExposureInsideRangeAfterBlanking ==
    last.op = "set_ctrl" /\ last.id \in {"vblank", "framerate"}
        => ExposureInRange

\* the last operation's events that are sensor register writes (not reads,
\* not calls into the serializer/deserializer drivers)
RegWrites ==
    {k \in DOMAIN trace :
        /\ trace[k].reg \notin {"max96793_setup_streaming",
                                "max96792_setup_streaming",
                                "max96792_start_streaming",
                                "max96792_stop_streaming",
                                "max96793_bypassPCLK_dis",
                                "max96792_power_on", "max96792_power_off"}
        /\ trace[k].reg \notin {"rd:EXTMODE", "delay"}}

\* C11: a register write failure at any point of a stream-start sequence
\* aborts the sequence: the failed write is the last event of the start and
\* the start reports failure.
C11_WriteFailureAbortsStart ==
    StartRequest /\ ~last.preStreaming =>
        \A k \in Failed \cap RegWrites :
            k = Len(trace) /\ last.ret # 0

\* C12: a bus register write makes at most IMX662_MAX_RETRIES transfer
\* attempts, and when its attempts have all failed it returns an error.
C12_BoundedRetry ==
    loc.fn \in RetryFns =>
        /\ loc.sent <= IMX662_MAX_RETRIES
        /\ loc.pc = "done" /\ loc.ret < 0
              => loc.sent = IMX662_MAX_RETRIES /\ loc.result < 0
        /\ loc.pc = "done" /\ loc.result = 0 => loc.ret >= 0

\* C12 case: every attempt failed and the write returned the error
C12_AllAttemptsFailed ==
    /\ loc.fn \in RetryFns /\ loc.pc = "done"
    /\ loc.sent = IMX662_MAX_RETRIES /\ loc.result < 0

\* register-hold is asserted when event k of the last operation is issued:
\* the nearest REGHOLD write before k wrote 1 and reached the sensor
HoldAssertedAt(k) ==
    \E j \in 1 .. k - 1 :
        /\ trace[j].reg = "REGHOLD" /\ trace[j].val = 1 /\ trace[j].ok
        /\ \A i \in j + 1 .. k - 1 : trace[i].reg # "REGHOLD"

\* C13: every shutter write is issued with register-hold asserted before it
\* and register-hold released after it.
C13_ShutterWrittenUnderHold ==
    \A k \in DOMAIN trace :
        trace[k].reg = "SHR" =>
            /\ HoldAssertedAt(k)
            /\ \E j \in k + 1 .. Len(trace) :
                  trace[j].reg = "REGHOLD" /\ trace[j].val = 0

\* C14: a stream stop tells an active link collaborator to stop forwarding,
\* then deasserts master-start, then writes the standby value to the
\* mode-select register, then waits the settle delay, in this order.
C14_StopOrder ==
    StopRequest /\ last.preStreaming =>
        \E x, y, d \in DOMAIN trace :
            /\ x < y /\ y < d
            /\ trace[x].reg = "XMSTA" /\ trace[x].val = 1
            /\ trace[y].reg = "STANDBY" /\ trace[y].val = IMX662_MODE_STANDBY
            /\ trace[d].reg = "delay"
            /\ gmsl => \E c \in 1 .. x - 1 :
                          trace[c].reg = "max96792_stop_streaming"

\* the instance is in master operation mode (only fr has a slave mode)
MasterMode ==
    "operation_mode" \in DOMAIN ctrl
        => ctrl["operation_mode"] = MASTER_MODE

\* C15: master-start is asserted (XMSTA = 0) only in master operation mode;
\* a stream started in slave mode writes master-start deasserted, and the
\* operation mode cannot be changed while the stream runs.
C15_MasterStartOnlyInMasterMode ==
    /\ \A k \in DOMAIN trace :
          trace[k].reg = "XMSTA" /\ trace[k].val = 0 => MasterMode
    /\ StartRequest /\ ~last.preStreaming /\ streaming /\ ~MasterMode
          => \E k \in DOMAIN trace :
                trace[k].reg = "XMSTA" /\ trace[k].val = 1 /\ trace[k].ok
    /\ last.op = "set_ctrl" /\ last.id = "operation_mode"
          /\ last.preStreaming => last.ret = EBUSY

\* C15 case: a stream started in slave operation mode
C15_SlaveModeStart ==
    /\ StartRequest /\ ~last.preStreaming /\ streaming /\ ~MasterMode
    /\ \E k \in DOMAIN trace : trace[k].reg = "XMSTA" /\ trace[k].ok

\* the sync mode the last operation selected: the argument of the private
\* ioctl, else the value of the sync-mode control
SelectedSync ==
    IF last.op = "ioctl" /\ last.id = "sync_mode" THEN last.val
    ELSE pnew["sync_mode"]

\* C16: whenever the triggering-pin drive register is written by a stream
\* start or a sync-mode update, its value follows the operation and sync
\* mode: 0 for internal-sync master, 3 for external-sync master, 15 for
\* slave mode.
C16_TriggeringPinsFollowMode ==
    "sync_mode" \in DOMAIN ctrl
    /\ last.op \in {"set_stream", "set_ctrl", "ioctl", "resume"} =>
        \A k \in DOMAIN trace :
            trace[k].reg = "XVS_XHS_DRV" =>
                /\ ~MasterMode => trace[k].val = 15
                /\ MasterMode /\ SelectedSync = INTERNAL_SYNC
                      => trace[k].val = 0
                /\ MasterMode /\ SelectedSync = EXTERNAL_SYNC
                      => trace[k].val = 3

\* C17: when a serializer-side step of the link bring-up has reported a
\* failure, the bring-up returns failure.
C17_SerializerFailurePropagates ==
    loc.fn = "imx662_gmsl_serdes_setup" /\ loc.pc = SerdesReturned
    /\ loc.failed \cap SerializerCalls # {}
        => loc.result # 0

\* the frame length imx662_set_limits (fr) computes as the shortest one of the
\* active mode: the mode's height, doubled in binning mode, plus the minimum
\* frame-length delta
Fr_min_frame_length(mo) ==
    (IF mo = 4 THEN Fr_modes[mo].height * 2 ELSE Fr_modes[mo].height)
        + IMX662_MIN_FRAME_LENGTH_DELTA

\* C18: after any sequence of mode changes, blanking changes and frame-rate
\* changes the stored frame length is at least the active mode's minimum
\* frame length and the stored line length is at least the active mode's
\* minimum line length (rpi: VMAX and HMAX against min_VMAX and min_HMAX of
\* the mode; fr: frame_length against the height plus the minimum delta, the
\* line length being the mode's constant hmax)
C18_FramingAboveModeMinimum ==
    /\ drv = "rpi" => /\ VMAX >= Rpi_modes[mode].min_VMAX
                      /\ HMAX >= Rpi_modes[mode].min_HMAX
    /\ drv = "fr" => VMAX >= Fr_min_frame_length(mode)


\* the minimum shutter length of a mode: larger for the clear-HDR mode
MinShutterLength(index) ==
    IF index = IMX662_CLEAR_INDEX THEN IMX662_MIN_SHR0_CLEAR_LENGTH
    ELSE IMX662_MIN_SHR0_LENGTH

\* C19: in every mode an exposure request whose line count is below the
\* mode's minimum integration lines gives the shutter register
\* frame_length - min_integration_lines, and a request above the mode's
\* maximum gives the minimum shutter length
C19_ExposureClampsToModeBounds ==
    loc.fn = "ae" /\ loc.op = "set_exp" =>
        LET m == loc.cur_mode
        IN /\ loc.req < m.min_integration_line =>
                  loc.SHR0 = m.curr_frm_len_lines - m.min_integration_line
           /\ loc.req > m.max_integration_line =>
                  loc.SHR0 = MinShutterLength(m.index)

\* C19 as amended: in every mode other than the DOL mode an exposure
\* request whose line count is below the mode's minimum integration lines
\* gives the shutter register frame_length - min_integration_lines, and a
\* request above the mode's maximum gives the mode's minimum shutter length
C19_NonDolExposureClamps ==
    loc.fn = "ae" /\ loc.op = "set_exp"
        /\ loc.cur_mode.index # IMX662_DOL_INDEX =>
        LET m == loc.cur_mode
        IN /\ loc.req < m.min_integration_line =>
                  loc.SHR0 = m.curr_frm_len_lines - m.min_integration_line
           /\ loc.req > m.max_integration_line =>
                  loc.SHR0 = MinShutterLength(m.index)

\* both clamps taken outside the DOL mode: a request above the maximum
\* after a frame-rate change, in the clear-HDR mode
C19_UpperClampAfterFrameRate ==
    /\ loc.fn = "ae" /\ loc.op = "set_exp"
    /\ loc.cur_mode.index = IMX662_CLEAR_INDEX
    /\ loc.cur_mode.curr_frm_len_lines # loc.cur_mode.def_frm_len_lines
    /\ loc.req > loc.cur_mode.max_integration_line
    /\ loc.SHR0 = IMX662_MIN_SHR0_CLEAR_LENGTH

\* C20: in DOL mode, for the main shutter value S the sensor holds and every
\* sub-exposure request, the readout-timing offset R that is written
\* satisfies R <= S - 5
C20_OffsetBelowShutter ==
    loc.fn = "ae" /\ loc.op = "set_vs_exp"
        /\ loc.cur_mode.index = IMX662_DOL_INDEX =>
        loc.RHS1 <= loc.SHR0 - IMX662_MIN_SHR0_RHS1_DIST


\* C21: for every sub-exposure request the readout-timing offset R that is
\* written is at least 2 * IMX662_BRL - 1 (2239)
C21_OffsetAboveRowLimit ==
    loc.fn = "ae" /\ loc.op = "set_vs_exp" =>
        loc.RHS1 >= 2 * IMX662_BRL - 1


\* the nearest even value that is not below x
RoundUpEven(x) == IF x % 2 = 1 THEN x + 1 ELSE x

\* C22: the frame length derived from a requested frame rate is rounded up
\* to the nearest even value, and in the DOL mode the value stored is that
\* even value divided by two
C22_FrameLengthEvenThenHalved ==
    loc.fn = "ae" /\ loc.op = "set_fps" =>
        LET m == loc.cur_mode
            derived == IMX662_G_FACTOR
                           \div ((m.cur_fps \div 1024) * m.one_line_exp_time_ns)
        IN m.curr_frm_len_lines =
               IF m.index = IMX662_DOL_INDEX THEN RoundUpEven(derived) \div 2
               ELSE RoundUpEven(derived)


\* the frame length a clamped rate asks for, before halving and rounding
DerivedFrameLength(m) ==
    IMX662_G_FACTOR \div ((m.cur_fps \div 1024) * m.one_line_exp_time_ns)

\* C22 as amended: the frame length derived from a requested frame rate is
\* rounded up to the nearest even value; in the DOL mode the derived value
\* is divided by two first and the half is rounded up to the nearest even
\* value
C22_FrameLengthHalvedThenEven ==
    loc.fn = "ae" /\ loc.op = "set_fps" =>
        LET m == loc.cur_mode
        IN m.curr_frm_len_lines =
               RoundUpEven(IF m.index = IMX662_DOL_INDEX
                           THEN DerivedFrameLength(m) \div 2
                           ELSE DerivedFrameLength(m))

\* a frame rate set in the DOL mode whose halved frame length was odd
C22_DolHalfRoundedUp ==
    /\ loc.fn = "ae" /\ loc.op = "set_fps"
    /\ loc.cur_mode.index = IMX662_DOL_INDEX
    /\ (DerivedFrameLength(loc.cur_mode) \div 2) % 2 = 1
    /\ loc.cur_mode.curr_frm_len_lines
           = DerivedFrameLength(loc.cur_mode) \div 2 + 1


\* the lookup has returned for the input loc.gain
GainDone == loc.fn = "imx662_get_gain_reg" /\ loc.pc = "done"

\* the result of the lookup for every input
GainRegOf == [g \in GainInputs |-> imx662_get_gain_reg(g)]

AbsDiff(a, b) == IF a < b THEN b - a ELSE a - b

\* C23: the gain table lookup is monotonic: an input above the one looked
\* up never resolves to a lower index
C23_GainLookupMonotonic ==
    GainDone =>
        \A g2 \in GainInputs : loc.gain < g2 => loc.ret <= GainRegOf[g2]

\* a lookup inside the table range that resolved to an index above zero
C23_LookupInsideTable ==
    /\ GainDone /\ loc.ret > 0 /\ loc.ret < IMX662_GAIN_REG_LEN - 1
    /\ \E g2 \in GainInputs : loc.gain < g2 /\ loc.ret < GainRegOf[g2]

\* C24: the lookup round-trips: for every index i in 0..240 the lookup of
\* table entry i returns i
C24_GainLookupRoundTrip ==
    GainDone =>
        \A i \in 0..(IMX662_GAIN_REG_LEN - 1) :
            loc.gain = GainTimes(i) => loc.ret = i

\* the lookup of an exact entry inside the table, found by the search
C24_ExactEntryFound ==
    /\ GainDone /\ loc.l + 1 = loc.r
    /\ loc.gain = GainTimes(loc.ret) /\ loc.ret > 0

\* C25: for every gain input the lookup returns an index of the table whose
\* entry is closest to the input among all 241 entries; an input below
\* entry 0 gives index 0 and an input above entry 240 gives index 240
C25_GainLookupClosest ==
    GainDone =>
        /\ loc.ret \in 0..(IMX662_GAIN_REG_LEN - 1)
        /\ \A j \in 0..(IMX662_GAIN_REG_LEN - 1) :
               AbsDiff(GainTimes(loc.ret), loc.gain)
                   <= AbsDiff(GainTimes(j), loc.gain)
        /\ loc.gain < GainTimes(0) => loc.ret = 0
        /\ loc.gain > GainTimes(IMX662_GAIN_REG_LEN - 1) =>
               loc.ret = IMX662_GAIN_REG_LEN - 1

\* an input between two entries that resolved to the upper one, and an
\* input outside the table
C25_BetweenEntriesUpper ==
    /\ GainDone /\ loc.l + 1 = loc.r /\ loc.ret = loc.r
    /\ GainTimes(loc.l) < loc.gain /\ loc.gain < GainTimes(loc.r)

\* C26: a gain-time input of 1024 resolves to gain register code 0, and an
\* input of 32382 resolves to code 200
C26_GainScenario ==
    GainDone => /\ loc.gain = 1024 => loc.ret = 0
                /\ loc.gain = 32382 => loc.ret = 200

\* C26 as amended: a gain-time input of 1024 resolves to gain register code
\* 0, and an input of 32382 (30 dB) resolves to code 100
C26_GainScenarioAmended ==
    GainDone => /\ loc.gain = 1024 => loc.ret = 0
                /\ loc.gain = 32382 => loc.ret = 100

\* the lookup of 32382 has returned
C26_ThirtyDecibelLookedUp == GainDone /\ loc.gain = 32382 /\ loc.ret = 100


\* the support matrix: 720 Mbps without binning, 594 Mbps with or without
SupportedDataRate(data_rate, binning) ==
    \/ data_rate = IMX662_594_MBPS
    \/ data_rate = IMX662_720_MBPS /\ ~binning

\* the sensor is in a binning mode
SensorBinning == loc.ADDMODE = IMX662_BINNING_MODE

\* C27: a data-rate request outside the support matrix of the active mode
\* is rejected with an error and never replaced by a different data rate:
\* the selector register keeps its value
C27_UnsupportedDataRateRejected ==
    loc.fn = "ae" /\ loc.op = "set_data_rate"
        /\ ~SupportedDataRate(loc.req, SensorBinning) =>
        loc.ret # 0 /\ loc.DATARATE_SEL = loc.old_rate

\* C28: for every supported combination of data rate and mode, setting the
\* data rate programs the documented line length: 660 for 720 Mbps without
\* binning, 990 for 594 Mbps without binning, 660 for 594 Mbps with binning
C28_DataRateProgramsLineLength ==
    loc.fn = "ae" /\ loc.op = "set_data_rate"
        /\ SupportedDataRate(loc.req, SensorBinning) =>
        /\ loc.ret = 0
        /\ loc.DATARATE_SEL = loc.req
        /\ loc.HMAX = IF loc.req = IMX662_720_MBPS \/ SensorBinning
                      THEN 660 ELSE 990

\* 594 Mbps set without binning after 720 Mbps had been in use: the line
\* length goes back from 660 to 990
C28_LineLengthRestored ==
    /\ loc.fn = "ae" /\ loc.op = "set_data_rate" /\ ~SensorBinning
    /\ loc.req = IMX662_594_MBPS /\ loc.old_rate = IMX662_720_MBPS
    /\ loc.HMAX = 990 /\ loc.ret = 0


\* the codes the device variant supports
SupportedCode(mono, code) ==
    IF mono THEN code \in {"Y16_1X16", "Y12_1X12"}
    ELSE code \in {"SRGGB16_1X16", "SGRBG16_1X16", "SGBRG16_1X16",
                   "SBGGR16_1X16", "SRGGB12_1X12", "SGRBG12_1X12",
                   "SGBRG12_1X12", "SBGGR12_1X12"}

\* C29: a format request whose pixel code is not supported is answered
\* with an error; no mode is selected for it and no mode data is read
C29_UnsupportedFormatRejected ==
    loc.fn = "fmt" /\ loc.op = "set_pad_format"
        /\ ~SupportedCode(loc.mono, loc.req) =>
        loc.ret # 0 /\ ~loc.null_mode /\ loc.format = <<>>


\* the values the last operation, a request for the black-level control of
\* the fr driver, sent to the black-level register
BlackLevelWritten ==
    IF drv = "fr" /\ last.op = "set_ctrl" /\ last.id = "blklvl"
    THEN {trace[k].val : k \in {j \in DOMAIN trace :
                                   trace[j].reg = "BLKLEVEL"}}
    ELSE {}

\* the active format is one of the 10-bit modes
TenBitFormat == Fr_modes[mode].list = "10"

\* C30: the black-level register value is the requested value shifted
\* right by 2 when the active format is 10-bit, and the requested value
\* unchanged when it is 12-bit
C30_BlackLevelShiftedWhenTenBit ==
    \A r \in BlackLevelWritten :
        r = IF TenBitFormat THEN last.val \div 4 ELSE last.val

\* C30 as the drivers have it: the black-level register value is the
\* requested value unchanged when the active format is 10-bit, and the
\* requested value shifted right by 2 when it is 12-bit
C30_BlackLevelShiftedWhenTwelveBit ==
    \A r \in BlackLevelWritten :
        r = IF TenBitFormat THEN last.val ELSE last.val \div 4

\* a black level of 203 requested in a 12-bit format and written as 50
C30_TwelveBitRequestShifted ==
    ~TenBitFormat /\ last.val = 203 /\ BlackLevelWritten = {50}


\* the controls the framework refuses to change at present
Grabbed ==
    IF ~grab THEN {}
    ELSE CASE drv = "rpi" -> Rpi_grabbed
           [] drv = "fr" -> Fr_grabbed
           [] OTHER -> {}

\* C31: while streaming is active the vertical-flip and the horizontal-flip
\* control are both grabbed, and neither is grabbed while streaming is not
\* active, whatever stream, suspend and resume calls came before
C31_FlipsGrabbedIffStreaming ==
    drv \in {"rpi", "fr"} =>
        IF streaming THEN {"vflip", "hflip"} \subseteq Grabbed
        ELSE Grabbed \cap {"vflip", "hflip"} = {}


\* C32: every operation that takes the instance's lock releases it before
\* it returns, on every path, so that the next operation can take it
C32_LockReleasedOnReturn ==
    loc.fn = "lock" => ~loc.lock


\* C33: the instance's lock is only taken between its initialisation and
\* its destruction, on every path of probe and of remove
C33_LockOnlyWhileInitialised ==
    loc.fn = "probe" => ~loc.early /\ ~loc.late


\* C34: after any sequence of stream, suspend and resume calls, failed
\* ones included, the driver holds one runtime-PM usage reference when its
\* streaming flag is set and none when the flag is clear
C34_UsageReferenceFollowsStreaming ==
    drv \in {"rpi", "fr"} => usage = IF streaming THEN 1 ELSE 0


\* C35: the active mode and its frame and line length do not change while
\* the device is streaming: a format request made during streaming leaves
\* the mode as it is and writes no register
C35_NoModeChangeWhileStreaming ==
    [][streaming /\ last'.op = "set_pad_format" =>
          mode' = mode /\ VMAX' = VMAX /\ HMAX' = HMAX /\ trace' = <<>>]_vars


\* C36: after a successful set_pad_format for the active format of the
\* image pad, get_pad_format hands back the code and the size that
\* set_pad_format reported, also when only the code changed
C36_GetFormatReturnsWhatSetReported ==
    loc.fn = "fmt" /\ loc.op = "get_pad_format" /\ loc.which = "ACTIVE" =>
        loc.got = loc.format


\* C37: in every mode and after any sequence of frame-rate and exposure
\* requests the main shutter value written is at least the minimum shutter
\* length of the mode (8 in the clear-HDR mode, 4 otherwise) and below the
\* frame length, or below twice the frame length in the DOL mode
C37_ShutterWithinFrame ==
    loc.fn = "ae" /\ loc.op = "set_exp" =>
        LET m == loc.cur_mode
        IN /\ MinShutterLength(m.index) <= loc.SHR0
           /\ loc.SHR0 < IF m.index = IMX662_DOL_INDEX
                         THEN 2 * m.curr_frm_len_lines
                         ELSE m.curr_frm_len_lines

\* a shutter value written in the DOL mode after a frame-rate change, above
\* the frame length and below twice the frame length
C37_DolShutterAboveFrameLength ==
    /\ loc.fn = "ae" /\ loc.op = "set_exp"
    /\ loc.cur_mode.index = IMX662_DOL_INDEX
    /\ loc.cur_mode.curr_frm_len_lines # loc.cur_mode.def_frm_len_lines
    /\ loc.SHR0 > loc.cur_mode.curr_frm_len_lines
    /\ loc.SHR0 < 2 * loc.cur_mode.curr_frm_len_lines


\* C38: for every exposure value of the range the ESP component advertises
\* for its exposure parameter, the shutter value written is at least 11 and
\* below the frame length read back from the sensor
C38_EspShutterInsideFrame ==
    loc.fn = "esp" /\ loc.op = "set_exposure" /\ loc.ret = 0 =>
        Esp_shr0_minimum <= loc.SHR0 /\ loc.SHR0 < loc.read_vmax


\* C39: the register-hold-bracketed write helper of the fr driver returns an
\* error whenever the register write between the two hold writes fails, also
\* when the write that releases the hold succeeds. Seen through a gain or
\* black-level control, whose handler is one call of the helper and returns
\* its result
C39_HeldWriteFailureReported ==
    /\ drv = "fr" /\ last.op = "set_ctrl" /\ last.id \in {"gain", "blklvl"}
    /\ Len(trace) = 3
    /\ trace[1].reg = "REGHOLD" /\ trace[1].val = 1 /\ trace[1].ok
    /\ trace[2].reg \in {"GAIN", "BLKLEVEL"} /\ ~trace[2].ok
    /\ trace[3].reg = "REGHOLD" /\ trace[3].val = 0 /\ trace[3].ok
    => last.ret # 0


\* C40: for every exposure value of the range that
\* calculate_min_max_v4l2_cid_exposure produced for the current frame and
\* line length, calculate_shr yields a shutter value between the min_SHR of
\* the mode and min(VMAX - 4, 0xFFFF), so that the 16-bit register write
\* carries it whole
C40_ShutterWithinRangeBounds ==
    loc.fn = "shr" /\ loc.op = "set_exposure" =>
        /\ Rpi_modes[loc.mode].min_SHR <= loc.shr
        /\ loc.shr <= Min(loc.VMAX - 4, 65535)
        /\ loc.SHR = loc.shr


====
